---- MODULE Spec2Model ----
(***************************************************************************)
(* The Online DDL executor of a tablet (go/vt/vttablet/onlineddl/          *)
(* executor.go): the schema_migrations rows, the executor's in-memory      *)
(* state, the vreplication streams it drives and the lag throttler it      *)
(* talks to.  One action per API operation, per phase of the periodic      *)
(* tick and per background goroutine; every action is one critical section *)
(* of the code (one holding of migrationMutex).                            *)
(***************************************************************************)
EXTENDS Integers, Sequences, FiniteSets, TLC

(* ---------------------------------------------------------------- bounds *)
\* How many times one migration may be retried in a run of the model.
MaxRetries == 1
\* The cut-overs attempted for one migration.
MaxAttempts == 2
\* The goroutines of CREATE and DROP handlers that wait for migrationMutex at
\* a time, for one migration.
MaxHandlers == 1
\* The same in the runs of the runner.
RunnerMaxHandlers == 2
\* The flag max-concurrent-online-ddl in the runs of the runner.
RunnerMaxConcurrent == 2

\* The flag max-concurrent-online-ddl, which NewExecutor keeps at 1 or above.
maxConcurrentOnlineDDLs == 1

(* ------------------------------------------------------------- constants *)
\* Durations are counted in milliseconds: one second of time.Duration.
Second == 1000
defaultCutOverThreshold == 10 * Second
minCutOverThreshold == 5 * Second
maxCutOverThreshold == 30 * Second
staleMigrationFailMinutes == 180
staleMigrationWarningMinutes == 5

(* ------------------------------------------------------------ value sets *)
UUIDs == {"u1", "u2", "u3"}
SingletonFlags == {"singleton", "singleton-context", "singleton-table"}
PendingStatuses == {"queued", "ready", "running"}
TerminalStatuses == {"complete", "failed", "cancelled"}
Statuses == PendingStatuses \cup TerminalStatuses
SelfTablet == "self"
OtherTablet == "other"

\* The names of tables.  A live table carries the name the statement gives;
\* the other names are generated: the shadow table of a vreplication
\* migration (GenerateInternalTableName), a name of the GC namespace in HOLD
\* state made for a migration (GenerateRenameStatementWithUUID,
\* GenerateGCTableName), and the sentry table of a cut-over.
LiveTables == {"t1", "t2"}
VreplTable(u) == "_vt_vrp_" \o u
HoldTable(u) == "_vt_hld_" \o u
SentryTable(u) == "_vt_hld_sentry_" \o u
TableNames ==
    LiveTables \cup {VreplTable(u) : u \in UUIDs} \cup {HoldTable(u) : u \in UUIDs}
               \cup {SentryTable(u) : u \in UUIDs}
\* schema.IsGCTableName
IsGCTableName(table) ==
    table \in {HoldTable(u) : u \in UUIDs} \cup {SentryTable(u) : u \in UUIDs}
\* What a name holds: no table, or a table told by where its contents come from.
NoTable == "none"

VARIABLES
    migrations,                    \* the schema_migrations table: UUID -> row
    ownedRunningMigrations,        \* set of UUIDs this executor owns
    ownedObjects,                  \* owned UUID -> the flags of the object ownedRunningMigrations holds for it
    threads,                       \* where the locks are observed: thread in a call -> the call, its position, the mutexes it holds
    isOpen,                        \* 0 or 1
    EnableOnlineDDL,               \* the tablet's configuration flag
    keyspace,                      \* the keyspace the executor was made for; "" when it has none
    reviewedRunningMigrationsFlag,
    vrepl,                         \* UUID -> state of its vreplication stream
    throttledApps,                 \* apps throttled in the lag throttler
    throttlerOpen,                 \* lagThrottler.CheckIsOpen() succeeds
    handlers,                      \* UUID -> CREATE/DROP goroutines started for it, not yet run
    tickPc,                        \* position of onMigrationCheckTick
    postponedAtTick,               \* where the ticks are observed: the running rows that had postpone_completion set when the tick under way began
    cancellable,                   \* what reviewRunningMigrations handed to the tick
    submitting,                    \* a submission between its gate and its callback
    fixCompletedTimestampDone,     \* the one-time fix of gcArtifacts was made
    tables,                        \* the tables of the database, and what became of them
    cutOver,                       \* the locals of cutOverVReplMigration, when the last operation ran it
    completions,                   \* the rows that carry completed_timestamp, the oldest first
    writtenUnder,                  \* the mutexes the last operation held when it wrote rows, if it wrote any
    tickReentranceFlag,            \* 0, or 1 while a tick runs or cools down
    coolDown,                      \* the timer that resets tickReentranceFlag is armed
    lastCall                       \* the last operation: its result and its writes

vars == <<migrations, ownedRunningMigrations, ownedObjects, threads, isOpen, EnableOnlineDDL, keyspace, reviewedRunningMigrationsFlag, vrepl, throttledApps, throttlerOpen,
          handlers, tickPc, postponedAtTick, cancellable, submitting, fixCompletedTimestampDone,
          tables, cutOver, completions, writtenUnder, tickReentranceFlag, coolDown, lastCall>>

(* ------------------------------------------------------------- functions *)
\* A safeMigrationCutOverThreshold without the upper limit.
safeMigrationCutOverThreshold_NoMax(threshold) ==
    CASE threshold = 0 -> [threshold |-> defaultCutOverThreshold, err |-> "OK"]
      [] threshold # 0 /\ threshold < minCutOverThreshold ->
            [threshold |-> defaultCutOverThreshold, err |-> "FAILED_PRECONDITION"]
      [] OTHER -> [threshold |-> threshold, err |-> "OK"]

\* safeMigrationCutOverThreshold: the threshold to use, and whether it is accepted.
safeMigrationCutOverThreshold(threshold) ==
    CASE threshold = 0 -> [threshold |-> defaultCutOverThreshold, err |-> "OK"]
      [] threshold # 0 /\ threshold < minCutOverThreshold ->
            [threshold |-> defaultCutOverThreshold, err |-> "FAILED_PRECONDITION"]
      [] threshold > maxCutOverThreshold ->
            [threshold |-> defaultCutOverThreshold, err |-> "FAILED_PRECONDITION"]
      [] OTHER -> [threshold |-> threshold, err |-> "OK"]

\* int64(threshold.Seconds()): whole seconds, the fraction dropped.
Seconds(threshold) == threshold \div Second

Stored == DOMAIN migrations
Status(u) == migrations[u].migration_status
IsPending(u) == u \in Stored /\ Status(u) \in PendingStatuses
IsTerminal(u) == u \in Stored /\ Status(u) \in TerminalStatuses

\* sqlSelectPendingMigrations: the rows that are queued, ready or running.
sqlSelectPendingMigrations == {u \in Stored : Status(u) \in PendingStatuses}

\* GetRevertUUID succeeds exactly on a REVERT VITESS_MIGRATION statement.
IsRevert(row) == row.statement = "revert"

(* ------------------------------------------------- the state being built *)
\* The locals of cutOverVReplMigration when it is not called: the migration,
\* the position in the code, what the connections hold (the lock on the
\* tables, the RENAME), what became of the goroutine of the RENAME (none was
\* started; it has its result to send, or will have; its result was
\* received), whether queries are buffered, the deferred calls, the
\* steps made, the error returned, and how its calls go (co).
NoCutOver == [uuid |-> "", pc |-> "idle", locked |-> FALSE, buffering |-> FALSE,
              enabled |-> 0, disabled |-> 0, reenableOnce |-> FALSE,
              rename |-> "none", renameCompleteChan |-> "none",
              renameWasSuccessful |-> FALSE, defers |-> <<>>,
              steps |-> <<>>, err |-> FALSE,
              co |-> [failAt |-> "", fails |-> {}, lost |-> FALSE]]

\* The threads whose locking is observed: two callers of the API, the ticker,
\* and a goroutine.
APIThreads == {"api1", "api2"}
GoThreads == {"go1"}
Threads == APIThreads \cup {"ticker"} \cup GoThreads

\* A thread that runs no call of the executor; threads holds the others.
Idle == [op |-> "", pc |-> 0, holds |-> {}]
NoThreads == [t \in {} |-> Idle]

\* The flags of an OnlineDDL object that no row was read into.
NoObject == [WasReadyToComplete |-> 0, ReadyToComplete |-> 0]

\* An operation works on S: the table (m), the ownership set (owned) and the
\* flags of the objects it holds (o), the
\* streams (v), the tables of the database (t), the locals of the cut-over it
\* runs, if it runs one (c), and the status changes it has written so far
\* (edges), the rows whose completed_timestamp it has written so far, in the
\* order of the writes (done), and the mutexes it holds (mutex).
Begin == [m |-> migrations, owned |-> ownedRunningMigrations,
          o |-> [u \in UUIDs |-> IF u \in DOMAIN ownedObjects THEN ownedObjects[u]
                                 ELSE NoObject],
          v |-> vrepl, t |-> tables,
          c |-> NoCutOver, edges |-> {}, done |-> <<>>, mutex |-> {}]

\* e.migrationMutex and e.submitMutex
migrationMutex == "migrationMutex"
submitMutex == "submitMutex"

\* A Lock that takes nothing.
Lock_Nothing(S, mutex) == S

\* mutex.Lock(), in an operation that unlocks when it returns.
Lock(S, mutex) == [S EXCEPT !.mutex = @ \cup {mutex}]

\* An operation that starts with e.migrationMutex.Lock().
Locked == Lock(Begin, migrationMutex)

\* Writing status s to row u; a write to a missing row affects nothing.
WriteStatus(S, u, s) ==
    IF u \notin DOMAIN S.m \/ S.m[u].migration_status = s THEN S
    ELSE [S EXCEPT !.m[u].migration_status = s,
                   !.edges = @ \cup {<<S.m[u].migration_status, s>>}]

\* Writing a column of row u; a write of completed_timestamp is the latest.
SetColumn(S, u, column, value) ==
    IF u \notin DOMAIN S.m THEN S
    ELSE IF column = "completed_timestamp"
    THEN [S EXCEPT !.m[u][column] = value,
                   !.done = SelectSeq(@, LAMBDA x : x # u) \o <<u>>]
    ELSE [S EXCEPT !.m[u][column] = value]

\* sqlUpdateMigrationStatus
updateMigrationStatus(S, u, status) == WriteStatus(S, u, status)

\* sqlUpdateMigrationStatusFailedOrCancelled: cancelled when cancelled_timestamp
\* is set, failed otherwise; the row is stamped as completed in the same
\* statement (a terminal row without completed_timestamp is what the one-time
\* fix of gcArtifacts repairs for rows written by earlier versions).
sqlUpdateMigrationStatusFailedOrCancelled(S, u) ==
    IF u \in DOMAIN S.m
    THEN SetColumn(WriteStatus(S, u, IF S.m[u].cancelled_timestamp THEN "cancelled"
                                     ELSE "failed"),
                   u, "completed_timestamp", TRUE)
    ELSE S

updateMigrationStatusFailedOrCancelled(S, u) ==
    sqlUpdateMigrationStatusFailedOrCancelled(S, u)

\* sqlUpdateMigrationTimestamp: the named column is set to now.
updateMigrationTimestamp(S, column, u) ==
    IF column = "liveness_timestamp" THEN SetColumn(S, u, column, "fresh")
    ELSE SetColumn(S, u, column, TRUE)

\* sqlUpdateMigrationStartedTimestamp: started_timestamp is set when it is null.
updateMigrationStartedTimestamp(S, u) == SetColumn(S, u, "started_timestamp", TRUE)

\* sqlUpdateTabletFailure
updateTabletFailure(S, u) == SetColumn(S, u, "tablet_failure", TRUE)

\* sqlUpdateArtifacts: the name is added to the artifacts of the row.
updateArtifacts(S, u, artifact) ==
    IF u \in DOMAIN S.m
    THEN [S EXCEPT !.m[u].artifacts = @ \cup {artifact}, !.t.recorded = @ \cup {artifact}]
    ELSE S

\* sqlClearSingleArtifact
clearSingleArtifact(S, u, artifact) ==
    IF u \in DOMAIN S.m THEN [S EXCEPT !.m[u].artifacts = @ \ {artifact}] ELSE S

\* sqlClearArtifacts
clearArtifacts(S, u) == SetColumn(S, u, "artifacts", {})

\* tableExists
tableExists(S, table) == S.t.at[table] # NoTable

\* The statements the executor runs on the backend.
CreateTable(table, ifNotExists, contents) ==
    [op |-> "create", table |-> table, ifNotExists |-> ifNotExists, contents |-> contents]
RenameTable(from, to) == [op |-> "rename", from |-> from, to |-> to]
AlterTable(table) == [op |-> "alter", table |-> table]
DropTable(table) == [op |-> "drop", table |-> table]

\* What the backend makes of a statement: the tables it leaves and the error
\* it answers ("" for none).
execSQL(t, sql) ==
    CASE sql.op = "create" ->
            IF t.at[sql.table] = NoTable
            THEN [t |-> [t EXCEPT !.at[sql.table] = sql.contents], err |-> ""]
            ELSE [t |-> t, err |-> IF sql.ifNotExists THEN "" ELSE "ERTableExists"]
      [] sql.op = "rename" ->
            IF t.at[sql.from] = NoTable THEN [t |-> t, err |-> "ERNoSuchTable"]
            ELSE IF t.at[sql.to] # NoTable THEN [t |-> t, err |-> "ERTableExists"]
            ELSE [t |-> [t EXCEPT !.at[sql.to] = t.at[sql.from], !.at[sql.from] = NoTable],
                  err |-> ""]
      [] sql.op = "drop" ->
            IF t.at[sql.table] = NoTable THEN [t |-> t, err |-> "ERNoSuchTable"]
            ELSE [t |-> [t EXCEPT !.at[sql.table] = NoTable, !.dropped = @ \cup {sql.table}],
                  err |-> ""]
      [] OTHER ->
            IF t.at[sql.table] = NoTable THEN [t |-> t, err |-> "ERNoSuchTable"]
            ELSE [t |-> t, err |-> ""]

acceptableDropTableIfExistsErrorCodes == {"ERCantFindFile", "ERNoSuchTable"}

\* sqlUpdateTablet: the row's tablet becomes this executor's alias.
updateMigrationTablet(S, u) == SetColumn(S, u, "tablet", SelfTablet)

\* An onSchemaMigrationStatus that stamps no completed_timestamp.
onSchemaMigrationStatus_NoCompletedTimestamp(S, u, status) ==
    LET T == CASE status = "ready" -> updateMigrationTimestamp(S, "ready_timestamp", u)
               [] status = "running" ->
                    updateMigrationTimestamp(updateMigrationStartedTimestamp(S, u),
                                             "liveness_timestamp", u)
               [] status \in {"complete", "failed"} -> updateMigrationStartedTimestamp(S, u)
               [] OTHER -> S
    IN updateMigrationStatus(T, u, status)

onSchemaMigrationStatus(S, u, status) ==
    LET T == CASE status = "ready" -> updateMigrationTimestamp(S, "ready_timestamp", u)
               [] status = "running" ->
                    updateMigrationTimestamp(updateMigrationStartedTimestamp(S, u),
                                             "liveness_timestamp", u)
               [] status \in {"complete", "failed"} ->
                    updateMigrationTimestamp(updateMigrationStartedTimestamp(S, u),
                                             "completed_timestamp", u)
               [] OTHER -> S
    IN updateMigrationStatus(T, u, status)

\* A failMigration that forgets the status and only gives up the ownership.
failMigration_OwnershipOnly(S, u) == [S EXCEPT !.owned = @ \ {u}]

failMigration(S, u) ==
    LET T == updateMigrationStatusFailedOrCancelled(S, u)
    IN [T EXCEPT !.owned = @ \ {u}]

\* sqlRetryMigration and sqlRetryMigrationWhere: a failed or cancelled row goes
\* back to queued on this tablet, its run-time columns cleared.
sqlRetryMigration(S, u) ==
    IF u \in DOMAIN S.m /\ S.m[u].migration_status \in {"failed", "cancelled"}
    THEN LET T == WriteStatus(S, u, "queued")
         IN [T EXCEPT !.m[u].tablet = SelfTablet,
                      !.m[u].retries = @ + 1,
                      !.m[u].tablet_failure = FALSE,
                      !.m[u].ready_timestamp = FALSE,
                      !.m[u].started_timestamp = FALSE,
                      !.m[u].liveness_timestamp = "null",
                      !.m[u].cancelled_timestamp = FALSE,
                      !.m[u].completed_timestamp = FALSE,
                      !.m[u].cleanup_timestamp = FALSE]
    ELSE S

\* sqlWhereTabletFailure
sqlWhereTabletFailure(row) ==
    row.tablet_failure /\ row.migration_status = "failed" /\ row.retries = 0

(* ------------------------------------------------------------------ Init *)
NoSubmission == [kind |-> "none"]
NoStream == "none"

\* The state after NewExecutor, on a database where the tables live exist.
InitWith(live) ==
    /\ migrations = [u \in {} |-> 0]
    /\ ownedRunningMigrations = {}
    /\ ownedObjects = [u \in {} |-> NoObject]
    /\ threads = NoThreads
    /\ isOpen = 0
    /\ EnableOnlineDDL \in BOOLEAN
    /\ keyspace \in {"", "ks"}
    /\ reviewedRunningMigrationsFlag = FALSE
    /\ vrepl = [u \in UUIDs |-> NoStream]
    /\ throttledApps = {}
    /\ throttlerOpen = FALSE
    /\ handlers = [u \in UUIDs |-> 0]
    /\ tickPc = "idle"
    /\ postponedAtTick = {}
    /\ cancellable = {}
    /\ submitting = NoSubmission
    /\ fixCompletedTimestampDone = FALSE
    /\ tables = [at |-> [n \in TableNames |-> IF n \in live THEN "original" ELSE NoTable],
                 recorded |-> {}, gc |-> {}, dropped |-> {}]
    /\ cutOver = NoCutOver
    /\ completions = <<>>
    /\ writtenUnder = {}
    /\ tickReentranceFlag = 0
    /\ coolDown = FALSE
    /\ lastCall = [op |-> "NewExecutor", uuid |-> "", code |-> "OK", rows |-> 0, edges |-> {}]

Init == InitWith({"t1"})

\* An executor with a keyspace, and one on a tablet where online DDL is
\* enabled.
InitKeyspace == Init /\ keyspace = "ks"

InitServing == InitKeyspace /\ EnableOnlineDDL

\* The UUIDs of a set of rows in the order of their ids (ORDER BY id).
RECURSIVE SeqById(_, _)
SeqById(m, us) ==
    IF us = {} THEN <<>>
    ELSE LET u == CHOOSE x \in us : \A y \in us : m[x].id <= m[y].id
         IN <<u>> \o SeqById(m, us \ {u})

\* ORDER BY completed_timestamp: the rows that S stamps follow those that
\* were stamped before, and a row whose stamp S clears is left out.
CompletedOrder(S) ==
    LET IsStamped(u) == u \in DOMAIN S.m /\ S.m[u].completed_timestamp
        written == {S.done[i] : i \in 1..Len(S.done)}
        IsKept(u) == IsStamped(u) /\ u \notin written
        kept == SelectSeq(completions, IsKept)
        other == {u \in DOMAIN S.m : IsKept(u) /\ u \notin {kept[i] : i \in 1..Len(kept)}}
    IN kept \o SeqById(S.m, other) \o SelectSeq(S.done, IsStamped)

Commit(S) ==
    /\ migrations' = S.m
    /\ ownedRunningMigrations' = S.owned
    /\ ownedObjects' = [u \in S.owned |-> S.o[u]]
    /\ UNCHANGED threads
    /\ vrepl' = S.v
    /\ tables' = S.t
    /\ cutOver' = S.c
    /\ completions' = CompletedOrder(S)
    /\ writtenUnder' = IF S.m # migrations THEN {S.mutex} ELSE {}

Return(op, u, code, rows, S) ==
    lastCall' = [op |-> op, uuid |-> u, code |-> code, rows |-> rows, edges |-> S.edges]

\* What every API operation answers while isOpen = 0.
Rejected(op, u, code) ==
    /\ Commit(Begin)
    /\ Return(op, u, code, 0, Begin)

(* --------------------------------------------------------- Open and Close *)
Open ==
    /\ isOpen = 0
    /\ EnableOnlineDDL
    /\ reviewedRunningMigrationsFlag' = FALSE
    /\ ownedRunningMigrations' = {}
    /\ ownedObjects' = [u \in {} |-> NoObject]
    /\ isOpen' = 1
    /\ lastCall' = [op |-> "Open", uuid |-> "", code |-> "OK", rows |-> 0, edges |-> {}]
    /\ UNCHANGED <<migrations, threads, EnableOnlineDDL, keyspace, tickReentranceFlag, coolDown, vrepl, tables, cutOver, completions, throttledApps,
                   throttlerOpen, handlers, tickPc, postponedAtTick, cancellable, submitting,
                   fixCompletedTimestampDone>>
    /\ writtenUnder' = {}

Close ==
    /\ isOpen = 1
    /\ isOpen' = 0
    /\ lastCall' = [op |-> "Close", uuid |-> "", code |-> "OK", rows |-> 0, edges |-> {}]
    /\ UNCHANGED <<migrations, ownedRunningMigrations, ownedObjects, threads, EnableOnlineDDL, keyspace, tickReentranceFlag, coolDown, reviewedRunningMigrationsFlag, vrepl, tables, cutOver, completions, throttledApps, throttlerOpen,
                   handlers, tickPc, postponedAtTick, cancellable, submitting, fixCompletedTimestampDone>>
    /\ writtenUnder' = {}

(* ------------------------------------------------- terminating and cancel *)
\* How the calls to the topology server and to the tablet manager can end.
RpcOutcomes == {"ok", "topo_fails", "stop_fails"}

\* terminateVReplMigration(uuid, deleteEntry = false): GetTablet may fail, and
\* that is an error; a failure to stop the stream is logged and skipped.
terminateVReplMigration(S, u, rpc) ==
    CASE rpc = "topo_fails" -> [S |-> S, err |-> TRUE]
      [] rpc = "stop_fails" -> [S |-> S, err |-> FALSE]
      [] OTHER -> [S |-> IF S.v[u] = NoStream THEN S ELSE [S EXCEPT !.v[u] = "stopped"],
                   err |-> FALSE]

\* A terminateMigration that knows the strategy "online" only.
terminateMigration_OnlineOnly(S, u, rpc) ==
    LET D == [S EXCEPT !.owned = @ \ {u}]
    IN IF S.m[u].strategy \in {"online"}
       THEN LET t == terminateVReplMigration(D, u, rpc)
            IN [S |-> t.S, foundRunning |-> (S.v[u] = "running"), err |-> t.err]
       ELSE [S |-> D, foundRunning |-> FALSE, err |-> FALSE]

\* terminateMigration: whatever happens, the executor stops owning the migration.
terminateMigration(S, u, rpc) ==
    LET row == S.m[u]
        D == [S EXCEPT !.owned = @ \ {u}]
    IN IF row.strategy \in {"online", "vitess"}
       THEN LET t == terminateVReplMigration(D, u, rpc)
            IN [S |-> t.S, foundRunning |-> (S.v[u] = "running"), err |-> t.err]
       ELSE [S |-> D, foundRunning |-> FALSE, err |-> FALSE]

\* CancelMigration from the point on where it is "actually cancelling a
\* migration": the row is there and its status is not terminal.
cancelNonTerminal(S, u, issuedByUser, rpc) ==
    LET S1 == IF issuedByUser
              THEN updateMigrationTimestamp(S, "cancelled_timestamp", u)
              ELSE S
    IN IF S.m[u].migration_status \in {"queued", "ready"}
       THEN [S |-> failMigration(S1, u), code |-> "OK", rows |-> 1]
       ELSE LET t == terminateMigration(S1, u, rpc)
            IN [S |-> failMigration(t.S, u),
                code |-> IF t.err THEN "UNKNOWN" ELSE "OK",
                rows |-> IF ~t.err /\ t.foundRunning THEN 1 ELSE 0]

\* A CancelMigration that does not look at the status it read.
cancelMigration_AnyStatus(S, open, u, issuedByUser, rpc) ==
    IF ~open THEN [S |-> S, code |-> "FAILED_PRECONDITION", rows |-> 0]
    ELSE IF u \notin DOMAIN S.m THEN [S |-> S, code |-> "UNKNOWN", rows |-> 0]
    ELSE cancelNonTerminal(S, u, issuedByUser, rpc)

\* CancelMigration as a function of the state; open tells whether isOpen = 1.
cancelMigration(S, open, u, issuedByUser, rpc) ==
    IF ~open THEN [S |-> S, code |-> "FAILED_PRECONDITION", rows |-> 0]
    ELSE IF u \notin DOMAIN S.m THEN [S |-> S, code |-> "UNKNOWN", rows |-> 0]
    ELSE IF S.m[u].migration_status \in TerminalStatuses
         THEN [S |-> S, code |-> "OK", rows |-> 0]
    ELSE cancelNonTerminal(S, u, issuedByUser, rpc)

Untouched == UNCHANGED <<isOpen, EnableOnlineDDL, keyspace, tickReentranceFlag, coolDown, reviewedRunningMigrationsFlag,
                         throttledApps, throttlerOpen, handlers, tickPc, postponedAtTick, cancellable,
                         submitting, fixCompletedTimestampDone>>

\* CancelMigration when its calls to other services end as rpc says.
CancelMigrationWith(u, issuedByUser, rpc) ==
    LET r == cancelMigration(Locked, isOpen = 1, u, issuedByUser, rpc)
    IN /\ Commit(r.S)
       /\ Return("CancelMigration", u, r.code, r.rows, r.S)
       /\ Untouched

CancelMigration(u, issuedByUser) ==
    \E rpc \in RpcOutcomes : CancelMigrationWith(u, issuedByUser, rpc)

\* A readPendingMigrationsUUIDs that finds nothing pending.
readPendingMigrationsUUIDs_None(m) == <<>>

\* readPendingMigrationsUUIDs
readPendingMigrationsUUIDs(m) ==
    SeqById(m, {u \in DOMAIN m : m[u].migration_status \in PendingStatuses})

\* The loop of CancelPendingMigrations and of cancelMigrations: it stops at the
\* first error.
RECURSIVE cancelEach(_, _, _, _, _)
cancelEach(S, open, uuids, issuedByUser, rpcs) ==
    IF uuids = <<>> THEN [S |-> S, code |-> "OK", rows |-> 0]
    ELSE LET r == cancelMigration(S, open, Head(uuids), issuedByUser, rpcs[Head(uuids)])
         IN IF r.code # "OK" THEN [r EXCEPT !.rows = 0]
            ELSE LET rest == cancelEach(r.S, open, Tail(uuids), issuedByUser, rpcs)
                 IN [rest EXCEPT !.rows = @ + r.rows]

CancelPendingMigrations(issuedByUser) ==
    \E rpcs \in [sqlSelectPendingMigrations -> RpcOutcomes] :
        IF isOpen = 0
        THEN Rejected("CancelPendingMigrations", "", "FAILED_PRECONDITION") /\ Untouched
        ELSE LET r == cancelEach(Locked, TRUE, readPendingMigrationsUUIDs(migrations),
                                 issuedByUser, rpcs)
             IN /\ Commit(r.S)
                /\ Return("CancelPendingMigrations", "", r.code, r.rows, r.S)
                /\ Untouched

(* ----------------------------------------------------------------- retry *)
RetryMigration(u) ==
    /\ u \in Stored => migrations[u].retries < MaxRetries
    /\ IF isOpen = 0
       THEN Rejected("RetryMigration", u, "FAILED_PRECONDITION")
       ELSE LET S == sqlRetryMigration(Locked, u)
            IN /\ Commit(S)
               /\ Return("RetryMigration", u, "OK", IF S.edges = {} THEN 0 ELSE 1, S)
    /\ Untouched

(* ------------------------------------------- mutations of one column each *)
\* sqlUpdateReadyForCleanup, sqlUpdateReadyForCleanupAll
sqlWhereReadyForCleanup(row) ==
    row.migration_status \in TerminalStatuses /\ ~row.cleanup_timestamp /\ ~row.ready_for_cleanup
\* sqlUpdateForceCutOver
sqlWhereForceCutOver(row) == ~row.force_cutover
\* sqlClearPostponeCompletion
sqlWhereClearPostponeCompletion(row) == row.postpone_completion
\* sqlPostponeCompletion
sqlWherePostponeCompletion(row) == ~row.postpone_completion
\* sqlUpdateLaunchMigration
sqlWhereLaunchMigration(row) == row.postpone_launch
\* sqlSelectQueuedMigrations: queued rows that were reviewed.
sqlWhereQueuedReviewed(row) == row.migration_status = "queued" /\ row.reviewed_timestamp

\* An UPDATE that matches the rows us: column := value.
UpdateRows(S, us, column, value) ==
    [S EXCEPT !.m = [u \in DOMAIN S.m |->
                        IF u \in us THEN [S.m[u] EXCEPT ![column] = value] ELSE S.m[u]]]

\* An API operation that runs one UPDATE, which matches the rows us.
Mutation(op, u, us, column, value) ==
    /\ IF isOpen = 0
       THEN Rejected(op, u, "FAILED_PRECONDITION")
       ELSE LET S == UpdateRows(Locked, us, column, value)
            IN /\ Commit(S)
               /\ Return(op, u, "OK", Cardinality(us), S)
    /\ Untouched

\* The rows of us that an UPDATE with the given WHERE matches.
ReadyForCleanup(us) == {u \in us \cap Stored : sqlWhereReadyForCleanup(migrations[u])}
NotForcedCutOver(us) == {u \in us \cap Stored : sqlWhereForceCutOver(migrations[u])}
PostponedCompletion(us) ==
    {u \in us \cap Stored : sqlWhereClearPostponeCompletion(migrations[u])}
NotPostponedCompletion(us) ==
    {u \in us \cap Stored : sqlWherePostponeCompletion(migrations[u])}
PostponedLaunch(us) == {u \in us \cap Stored : sqlWhereLaunchMigration(migrations[u])}

CleanupMigration(u) ==
    Mutation("CleanupMigration", u, ReadyForCleanup({u}), "ready_for_cleanup", TRUE)
CleanupAllMigrations ==
    Mutation("CleanupAllMigrations", "", ReadyForCleanup(Stored), "ready_for_cleanup", TRUE)
ForceCutOverMigration(u) ==
    Mutation("ForceCutOverMigration", u, NotForcedCutOver({u}), "force_cutover", TRUE)
ForceCutOverPendingMigrations ==
    Mutation("ForceCutOverPendingMigrations", "",
             NotForcedCutOver(sqlSelectPendingMigrations), "force_cutover", TRUE)
CompleteMigration(u) ==
    Mutation("CompleteMigration", u, PostponedCompletion({u}), "postpone_completion", FALSE)
CompletePendingMigrations ==
    Mutation("CompletePendingMigrations", "",
             PostponedCompletion(sqlSelectPendingMigrations), "postpone_completion", FALSE)
PostponeCompleteMigration(u) ==
    Mutation("PostponeCompleteMigration", u, NotPostponedCompletion({u}),
             "postpone_completion", TRUE)
PostponeCompletePendingMigrations ==
    Mutation("PostponeCompletePendingMigrations", "",
             NotPostponedCompletion(sqlSelectPendingMigrations), "postpone_completion", TRUE)
LaunchMigration(u) ==
    Mutation("LaunchMigration", u, PostponedLaunch({u}), "postpone_launch", FALSE)
LaunchMigrations ==
    Mutation("LaunchMigrations", "",
             PostponedLaunch({u \in Stored : sqlWhereQueuedReviewed(migrations[u])}),
             "postpone_launch", FALSE)

(* ------------------------------------------------- cut-over threshold API *)
\* A SetMigrationCutOverThreshold that does not ask whether the executor is open.
SetMigrationCutOverThreshold_NoOpenCheck(u, threshold) ==
    /\ LET safe == safeMigrationCutOverThreshold(threshold)
       IN IF safe.err # "OK"
          THEN Rejected("SetMigrationCutOverThreshold", u, safe.err)
          ELSE LET S == SetColumn(Locked, u, "cutover_threshold_seconds",
                                  Seconds(safe.threshold))
               IN /\ Commit(S)
                  /\ Return("SetMigrationCutOverThreshold", u, "OK",
                            IF u \in Stored THEN 1 ELSE 0, S)
    /\ Untouched

\* thresholdString parsed by time.ParseDuration into threshold.
SetMigrationCutOverThreshold(u, threshold) ==
    /\ IF isOpen = 0
       THEN Rejected("SetMigrationCutOverThreshold", u, "FAILED_PRECONDITION")
       ELSE LET safe == safeMigrationCutOverThreshold(threshold)
            IN IF safe.err # "OK"
               THEN Rejected("SetMigrationCutOverThreshold", u, safe.err)
               ELSE LET S == SetColumn(Locked, u, "cutover_threshold_seconds",
                                       Seconds(safe.threshold))
                    IN /\ Commit(S)
                       /\ Return("SetMigrationCutOverThreshold", u, "OK",
                                 IF u \in Stored THEN 1 ELSE 0, S)
    /\ Untouched

(* ---------------------------------------------------------- the throttler *)
\* The app name under which all Online DDL is throttled.
OnlineDDLName == "online-ddl"

ThrottleApp(op, app, throttle) ==
    /\ IF ~throttlerOpen
       THEN /\ lastCall' = [op |-> op, uuid |-> app, code |-> "UNKNOWN", rows |-> 0,
                            edges |-> {}]
            /\ UNCHANGED throttledApps
       ELSE /\ throttledApps' = IF throttle THEN throttledApps \cup {app}
                                ELSE throttledApps \ {app}
            /\ lastCall' = [op |-> op, uuid |-> app, code |-> "OK", rows |-> 0,
                            edges |-> {}]
    /\ UNCHANGED <<migrations, ownedRunningMigrations, ownedObjects, threads, isOpen, EnableOnlineDDL, keyspace, tickReentranceFlag, coolDown, reviewedRunningMigrationsFlag, vrepl, tables, cutOver, completions, throttlerOpen, handlers, tickPc, postponedAtTick,
                   cancellable, submitting, fixCompletedTimestampDone>>
    /\ writtenUnder' = {}

ThrottleMigration(u) == ThrottleApp("ThrottleMigration", u, TRUE)
ThrottleAllMigrations == ThrottleApp("ThrottleAllMigrations", OnlineDDLName, TRUE)
UnthrottleMigration(u) == ThrottleApp("UnthrottleMigration", u, FALSE)
UnthrottleAllMigrations == ThrottleApp("UnthrottleAllMigrations", OnlineDDLName, FALSE)

\* The tablet server opens and closes the lag throttler on its own.
ThrottlerOpenClose ==
    /\ throttlerOpen' = ~throttlerOpen
    /\ lastCall' = [op |-> "Throttler", uuid |-> "", code |-> "OK", rows |-> 0, edges |-> {}]
    /\ UNCHANGED <<migrations, ownedRunningMigrations, ownedObjects, threads, isOpen, EnableOnlineDDL, keyspace, tickReentranceFlag, coolDown, reviewedRunningMigrationsFlag, vrepl, tables, cutOver, completions, throttledApps, handlers, tickPc, postponedAtTick,
                   cancellable, submitting, fixCompletedTimestampDone>>
    /\ writtenUnder' = {}

(* ----------------------------------------------------------------- submit *)
HasFlag(options, flag) == flag \in options

\* sqlInsertMigration: the row of a new migration d.
\* OnlineDDL.GetAction: the action of a statement.
DDLAction(statement) ==
    CASE statement = "create_if_not_exists" -> "create"
      [] statement = "drop_if_exists" -> "drop"
      [] OTHER -> statement

GetAction(row) == DDLAction(row.statement)

NewRow(d, id, threshold) ==
    [id |-> id,
     migration_status |-> "queued",
     migration_context |-> d.migration_context,
     mysql_table |-> d.table,
     statement |-> d.statement,
     ddl_action |-> DDLAction(d.statement),
     strategy |-> d.strategy,
     options |-> d.options,
     reverted_uuid |-> d.reverted_uuid,
     tablet |-> SelfTablet,
     retries |-> 0,
     tablet_failure |-> FALSE,
     cancelled_timestamp |-> FALSE,
     ready_timestamp |-> FALSE,
     started_timestamp |-> FALSE,
     completed_timestamp |-> FALSE,
     reviewed_timestamp |-> FALSE,
     cleanup_timestamp |-> FALSE,
     liveness_timestamp |-> "null",
     cutover_threshold_seconds |-> Seconds(threshold),
     postpone_launch |-> HasFlag(d.options, "postpone-launch"),
     postpone_completion |-> HasFlag(d.options, "postpone-completion"),
     ready_to_complete |-> FALSE,
     was_ready_to_complete |-> FALSE,
     is_immediate_operation |-> FALSE,
     force_cutover |-> FALSE,
     ready_for_cleanup |-> FALSE,
     cutover_attempts |-> 0,
     artifacts |-> {}]

\* A conflict check that makes no exception for a REVERT.
submittedMigrationConflicts_NoRevertException(d, pending) ==
    pending.migration_context # d.migration_context

submittedMigrationConflictsWithPendingMigrationInSingletonContext(d, pending) ==
    IF pending.migration_context = d.migration_context THEN FALSE
    ELSE IF ~IsRevert(pending) THEN TRUE
    ELSE IF ~HasFlag(pending.options, "singleton-context") THEN FALSE
    ELSE TRUE

\* A singleton check that counts the running migrations only.
SingletonRejects_RunningOnly(m, d) ==
    LET rows == {u \in DOMAIN m : m[u].migration_status \in PendingStatuses}
    IN IF HasFlag(d.options, "singleton")
       THEN \E p \in rows : m[p].migration_status = "running"
       ELSE IF HasFlag(d.options, "singleton-context")
            THEN \E p \in rows :
                    /\ m[p].migration_context # d.migration_context
                    /\ submittedMigrationConflictsWithPendingMigrationInSingletonContext(d, m[p])
       ELSE IF HasFlag(d.options, "singleton-table")
            THEN \E p \in rows : m[p].mysql_table = d.table
       ELSE FALSE

\* The switch of submitCallbackIfNonConflicting: the first flag that matches
\* decides, the others are not looked at.
SingletonRejects(m, d) ==
    LET rows == {u \in DOMAIN m : m[u].migration_status \in PendingStatuses}
    IN IF HasFlag(d.options, "singleton") THEN rows # {}
       ELSE IF HasFlag(d.options, "singleton-context")
            THEN \E p \in rows :
                    /\ m[p].migration_context # d.migration_context
                    /\ submittedMigrationConflictsWithPendingMigrationInSingletonContext(d, m[p])
       ELSE IF HasFlag(d.options, "singleton-table")
            THEN \E p \in rows : m[p].mysql_table = d.table
       ELSE FALSE

\* The callback of a submission: RetryMigration, which takes migrationMutex,
\* for a UUID that is stored, the INSERT for a new one.  A closed pool fails
\* the INSERT.
submitCallback(S, open, d) ==
    IF d.uuid \in DOMAIN S.m
    THEN IF ~open THEN [S |-> S, code |-> "FAILED_PRECONDITION", rows |-> 0]
         ELSE LET T == sqlRetryMigration(Lock(S, migrationMutex), d.uuid)
              IN [S |-> T, code |-> "OK", rows |-> IF T.edges = {} THEN 0 ELSE 1]
    ELSE IF ~open THEN [S |-> S, code |-> "UNKNOWN", rows |-> 0]
         ELSE LET row == NewRow(d, Cardinality(DOMAIN S.m) + 1,
                                safeMigrationCutOverThreshold(d.threshold).threshold)
              IN [S |-> [S EXCEPT !.m = [u \in DOMAIN S.m \cup {d.uuid} |->
                                            IF u = d.uuid THEN row ELSE S.m[u]]],
                  code |-> "OK", rows |-> 1]

UntouchedBySubmit == UNCHANGED <<isOpen, EnableOnlineDDL, keyspace, tickReentranceFlag, coolDown, reviewedRunningMigrationsFlag, throttledApps, throttlerOpen,
                                 handlers, tickPc, postponedAtTick, cancellable, fixCompletedTimestampDone>>

\* SubmitMigration up to the end of its singleton check; a submission that
\* carries no singleton flag runs its callback at once.
SubmitMigration(d) ==
    /\ submitting = NoSubmission
    /\ d.uuid \in Stored => migrations[d.uuid].retries < MaxRetries
    /\ UntouchedBySubmit
    /\ IF isOpen = 0
       THEN Rejected("SubmitMigration", d.uuid, "FAILED_PRECONDITION") /\ UNCHANGED submitting
       ELSE IF d.uuid \in Stored /\ migrations[d.uuid].migration_context # d.migration_context
       THEN Rejected("SubmitMigration", d.uuid, "FAILED_PRECONDITION") /\ UNCHANGED submitting
       ELSE IF d.uuid \notin Stored /\ safeMigrationCutOverThreshold(d.threshold).err # "OK"
       THEN /\ Rejected("SubmitMigration", d.uuid, safeMigrationCutOverThreshold(d.threshold).err)
            /\ UNCHANGED submitting
       ELSE IF d.options \cap SingletonFlags = {}
       THEN LET r == submitCallback(Lock(Begin, submitMutex), TRUE, d)
            IN /\ Commit(r.S)
               /\ Return("SubmitMigration", d.uuid, r.code, r.rows, r.S)
               /\ UNCHANGED submitting
       ELSE IF SingletonRejects(migrations, d)
       THEN Rejected("SubmitMigration", d.uuid, "FAILED_PRECONDITION") /\ UNCHANGED submitting
       ELSE /\ submitting' = [kind |-> "callback", d |-> d]
            /\ Commit(Begin)
            /\ Return("submitCallbackIfNonConflicting", d.uuid, "OK", 0, Begin)

\* The callback of a submission that passed the singleton check; migrationMutex
\* was released in between, submitMutex was not.
SubmitMigrationCallback ==
    /\ submitting # NoSubmission
    /\ LET r == submitCallback(Lock(Begin, submitMutex), isOpen = 1, submitting.d)
       IN /\ Commit(r.S)
          /\ Return("SubmitMigration", submitting.d.uuid, r.code, r.rows, r.S)
    /\ submitting' = NoSubmission
    /\ UntouchedBySubmit

(* --------------------------------------------------- onMigrationCheckTick *)
\* The order of the phases of one tick.
TickPhases == <<"retryTabletFailureMigrations", "reviewQueuedMigrations",
                "scheduleNextMigration", "runNextMigration", "reviewRunningMigrations",
                "cancelMigrations", "monitorStaleMigrations", "reviewStaleMigrations",
                "gcArtifacts">>

NextPhase(pc) ==
    IF pc = TickPhases[Len(TickPhases)] THEN "idle"
    ELSE TickPhases[(CHOOSE i \in 1..Len(TickPhases) : TickPhases[i] = pc) + 1]

UntouchedByTick == UNCHANGED <<isOpen, EnableOnlineDDL, keyspace, tickReentranceFlag, throttledApps,
                               throttlerOpen, submitting>>

\* A phase of the tick, were the tick to return at the first error.
PhaseReturning_StopsAtError(pc, S, code) ==
    /\ tickPc = pc
    /\ tickPc' = IF code = "ERROR" THEN "idle" ELSE NextPhase(pc)
    /\ postponedAtTick' = IF tickPc' = "idle" THEN {} ELSE postponedAtTick
    /\ coolDown' = (tickPc' = "idle")
    /\ Commit(S)
    /\ Return(pc, "", code, 0, S)

\* A phase of the tick: it ran and left S behind.  A phase whose queries fail
\* (the pool is closed) leaves everything as it was.
PhaseReturning(pc, S, code) ==
    /\ tickPc = pc
    /\ tickPc' = NextPhase(pc)
    /\ postponedAtTick' = IF NextPhase(pc) = "idle" THEN {} ELSE postponedAtTick
    /\ coolDown' = (NextPhase(pc) = "idle")
    /\ Commit(S)
    /\ Return(pc, "", code, 0, S)

Phase(pc, S) == PhaseReturning(pc, S, "OK")

\* The running rows that have postpone_completion set.
PostponedRunning ==
    {u \in DOMAIN migrations : /\ migrations[u].migration_status = "running"
                               /\ migrations[u].postpone_completion}

\* onMigrationCheckTick up to its first phase, entered whatever tickPc is and
\* whatever tickReentranceFlag is.
TickStart_IgnoresFlag ==
    \E primary \in BOOLEAN :
        /\ isOpen = 1
        /\ tickReentranceFlag' = 1
        /\ tickPc' = IF primary /\ keyspace # "" THEN TickPhases[1] ELSE "idle"
        /\ postponedAtTick' = {}
        /\ coolDown' = ~(primary /\ keyspace # "")
        /\ lastCall' = [op |-> "onMigrationCheckTick", uuid |-> "",
                        code |-> IF ~primary THEN "NOT_PRIMARY"
                                 ELSE IF keyspace = "" THEN "EMPTY_KEYSPACE" ELSE "OK",
                        rows |-> 0, edges |-> {}]
        /\ UNCHANGED <<migrations, ownedRunningMigrations, ownedObjects, threads, isOpen, EnableOnlineDDL, keyspace,
                       reviewedRunningMigrationsFlag, vrepl, tables, cutOver, completions, throttledApps, throttlerOpen,
                       handlers, cancellable, submitting, fixCompletedTimestampDone>>
        /\ writtenUnder' = {}

\* onMigrationCheckTick up to its first phase: it goes on when it swaps
\* tickReentranceFlag from 0 to 1, and it returns at once when tabletTypeFunc()
\* does not answer PRIMARY or the keyspace is empty.  The function that resets the flag is handed to
\* time.AfterFunc when the tick returns (the call is deferred).
\* seen is what an observer of the tick keeps of the rows as the tick begins.
TickStartSeeing(seen) ==
    \E primary \in BOOLEAN :
        /\ isOpen = 1
        /\ tickReentranceFlag = 0
        /\ tickReentranceFlag' = 1
        /\ tickPc' = IF primary /\ keyspace # "" THEN TickPhases[1] ELSE "idle"
        /\ postponedAtTick' = IF primary /\ keyspace # "" THEN seen ELSE {}
        /\ coolDown' = ~(primary /\ keyspace # "")
        /\ lastCall' = [op |-> "onMigrationCheckTick", uuid |-> "",
                        code |-> IF ~primary THEN "NOT_PRIMARY"
                                 ELSE IF keyspace = "" THEN "EMPTY_KEYSPACE" ELSE "OK",
                        rows |-> 0, edges |-> {}]
        /\ UNCHANGED <<migrations, ownedRunningMigrations, ownedObjects, threads, isOpen, EnableOnlineDDL, keyspace,
                       reviewedRunningMigrationsFlag, vrepl, tables, cutOver, completions, throttledApps, throttlerOpen,
                       handlers, cancellable, submitting, fixCompletedTimestampDone>>
        /\ writtenUnder' = {}

TickStart == TickStartSeeing({})

\* A call of onMigrationCheckTick that finds tickReentranceFlag at 1 returns.
TickSkipped ==
    /\ isOpen = 1
    /\ tickReentranceFlag = 1
    /\ lastCall' = [op |-> "onMigrationCheckTick", uuid |-> "", code |-> "REENTRANCE",
                    rows |-> 0, edges |-> {}]
    /\ UNCHANGED <<migrations, ownedRunningMigrations, ownedObjects, threads, isOpen, EnableOnlineDDL, keyspace,
                   tickReentranceFlag, coolDown, tickPc, postponedAtTick,
                   reviewedRunningMigrationsFlag, vrepl, tables, cutOver, completions, throttledApps, throttlerOpen,
                   handlers, cancellable, submitting, fixCompletedTimestampDone>>
    /\ writtenUnder' = {}

\* The function given to time.AfterFunc(time.Second, ...) runs.
CoolDownExpires ==
    /\ coolDown
    /\ coolDown' = FALSE
    /\ tickReentranceFlag' = 0
    /\ lastCall' = [op |-> "AfterFunc", uuid |-> "", code |-> "OK", rows |-> 0, edges |-> {}]
    /\ UNCHANGED <<migrations, ownedRunningMigrations, ownedObjects, threads, isOpen, EnableOnlineDDL, keyspace, tickPc, postponedAtTick,
                   reviewedRunningMigrationsFlag, vrepl, tables, cutOver, completions, throttledApps, throttlerOpen,
                   handlers, cancellable, submitting, fixCompletedTimestampDone>>
    /\ writtenUnder' = {}

\* retryTabletFailureMigrations: sqlRetryMigrationWhere has LIMIT 1.
retryTabletFailureMigrations(S) ==
    LET us == {u \in DOMAIN S.m : sqlWhereTabletFailure(S.m[u])}
    IN IF us = {} THEN S ELSE sqlRetryMigration(S, Head(SeqById(S.m, us)))

RetryTabletFailureMigrations ==
    /\ Phase("retryTabletFailureMigrations",
             IF isOpen = 1 THEN retryTabletFailureMigrations(Locked) ELSE Locked)
    /\ UNCHANGED <<reviewedRunningMigrationsFlag, handlers, cancellable,
                  fixCompletedTimestampDone>>
    /\ UntouchedByTick

\* reviewEmptyTableRevertMigrations and the rest of reviewQueuedMigration for
\* one row; an error fails the migration.
reviewQueuedMigration(S, u) ==
    LET row == S.m[u]
        revert == row.ddl_action = "revert"
        found == row.reverted_uuid \in DOMAIN S.m
        backfill == revert /\ row.mysql_table = ""
        mimicked == IF ~found THEN "revert"
                    ELSE CASE S.m[row.reverted_uuid].ddl_action = "create" -> "drop"
                           [] S.m[row.reverted_uuid].ddl_action = "drop" -> "create"
                           [] S.m[row.reverted_uuid].ddl_action = "alter" -> "alter"
                           [] OTHER -> "revert"
    IN IF backfill /\ mimicked = "revert" THEN failMigration(S, u)
       ELSE LET S1 == IF backfill
                      THEN SetColumn(SetColumn(S, u, "ddl_action", mimicked), u,
                                     "mysql_table", S.m[row.reverted_uuid].mysql_table)
                      ELSE S
                immediate == S1.m[u].ddl_action \in {"create", "drop"}
                S2 == IF immediate THEN SetColumn(S1, u, "is_immediate_operation", TRUE)
                      ELSE S1
            IN IF row.strategy = "mysql" /\ HasFlag(row.options, "postpone-completion")
               THEN failMigration(S2, u)
               ELSE updateMigrationTimestamp(S2, "reviewed_timestamp", u)

RECURSIVE reviewQueuedEach(_, _)
reviewQueuedEach(S, uuids) ==
    IF uuids = <<>> THEN S
    ELSE reviewQueuedEach(reviewQueuedMigration(S, Head(uuids)), Tail(uuids))

\* sqlSelectQueuedUnreviewedMigrations
reviewQueuedMigrations(S) ==
    reviewQueuedEach(S, SeqById(S.m, {u \in DOMAIN S.m :
        S.m[u].migration_status = "queued" /\ ~S.m[u].reviewed_timestamp}))

ReviewQueuedMigrations ==
    /\ Phase("reviewQueuedMigrations",
             IF isOpen = 1 THEN reviewQueuedMigrations(Locked) ELSE Locked)
    /\ UNCHANGED <<reviewedRunningMigrationsFlag, handlers, cancellable,
                  fixCompletedTimestampDone>>
    /\ UntouchedByTick

\* The flags of the OnlineDDL object that readMigration makes of a row
\* (row.AsInt64 of its two columns).
readMigrationFlags(row) ==
    [WasReadyToComplete |-> IF row.was_ready_to_complete THEN 1 ELSE 0,
     ReadyToComplete |-> IF row.ready_to_complete THEN 1 ELSE 0]

\* ownedRunningMigrations.Store(uuid, onlineDDL), onlineDDL read from row.
Store(S, u, row) ==
    [S EXCEPT !.owned = @ \cup {u}, !.o[u] = readMigrationFlags(row)]

\* The object that ownedRunningMigrations holds for r: the row it was read
\* from, with the flags as they were stored since.
Load(S, r) ==
    [S.m[r] EXCEPT !.was_ready_to_complete = (S.o[r].WasReadyToComplete # 0),
                   !.ready_to_complete = (S.o[r].ReadyToComplete # 0)]

\* sqlSetMigrationReadyToComplete: both columns are set.
sqlSetMigrationReadyToComplete(S, u) ==
    SetColumn(SetColumn(S, u, "ready_to_complete", TRUE), u, "was_ready_to_complete", TRUE)

\* sqlClearMigrationReadyToComplete: was_ready_to_complete is left as it is.
sqlClearMigrationReadyToComplete(S, u) == SetColumn(S, u, "ready_to_complete", FALSE)

\* An updateMigrationReadyToComplete that clears both columns and both flags
\* of the object when the migration is not ready.
updateMigrationReadyToComplete_ClearsBoth(S, u, isReady) ==
    LET T == SetColumn(S, u, "ready_to_complete", isReady)
        R == SetColumn(T, u, "was_ready_to_complete", isReady)
    IN IF u \notin R.owned THEN R
       ELSE [R EXCEPT !.o[u] = [WasReadyToComplete |-> IF isReady THEN 1 ELSE 0,
                                ReadyToComplete |-> IF isReady THEN 1 ELSE 0]]

\* updateMigrationReadyToComplete: after the row, the flags of the object
\* that ownedRunningMigrations holds for u, if it holds one.
updateMigrationReadyToComplete(S, u, isReady) ==
    LET R == IF isReady THEN sqlSetMigrationReadyToComplete(S, u)
             ELSE sqlClearMigrationReadyToComplete(S, u)
    IN IF u \notin R.owned THEN R
       ELSE [R EXCEPT !.o[u] = [WasReadyToComplete |-> IF isReady THEN 1 ELSE @.WasReadyToComplete,
                                ReadyToComplete |-> IF isReady THEN 1 ELSE 0]]

\* scheduleNextMigration without its sync.Once: every row that can be
\* scheduled is promoted.
RECURSIVE scheduleEach_NoOnce(_, _, _, _)
scheduleEach_NoOnce(S, rows, uuids, done) ==
    IF uuids = <<>> THEN S
    ELSE LET u == Head(uuids)
             row == rows[u]
         IN IF row.postpone_launch THEN scheduleEach_NoOnce(S, rows, Tail(uuids), done)
            ELSE LET S1 == IF ~row.ready_to_complete /\ row.is_immediate_operation
                           THEN updateMigrationReadyToComplete(S, u, TRUE)
                           ELSE S
                     promote == ~(row.is_immediate_operation /\ row.postpone_completion)
                     S2 == IF promote THEN updateMigrationStatus(S1, u, "ready") ELSE S1
                 IN scheduleEach_NoOnce(S2, rows, Tail(uuids), done \/ promote)

\* scheduleNextMigration over the rows the query returned (rows is that
\* snapshot): every immediate row is flagged, one row is promoted.
RECURSIVE scheduleEach(_, _, _, _)
scheduleEach(S, rows, uuids, done) ==
    IF uuids = <<>> THEN S
    ELSE LET u == Head(uuids)
             row == rows[u]
         IN IF row.postpone_launch THEN scheduleEach(S, rows, Tail(uuids), done)
            ELSE LET S1 == IF ~row.ready_to_complete /\ row.is_immediate_operation
                           THEN updateMigrationReadyToComplete(S, u, TRUE)
                           ELSE S
                     promote == ~(row.is_immediate_operation /\ row.postpone_completion)
                     S2 == IF promote /\ ~done THEN updateMigrationStatus(S1, u, "ready")
                           ELSE S1
                 IN scheduleEach(S2, rows, Tail(uuids), done \/ promote)

scheduleNextMigration(S) ==
    scheduleEach(S, S.m, SeqById(S.m, {u \in DOMAIN S.m : sqlWhereQueuedReviewed(S.m[u])}),
                 FALSE)

ScheduleNextMigration ==
    /\ Phase("scheduleNextMigration",
             IF isOpen = 1 THEN scheduleNextMigration(Locked) ELSE Locked)
    /\ UNCHANGED <<reviewedRunningMigrationsFlag, handlers, cancellable,
                  fixCompletedTimestampDone>>
    /\ UntouchedByTick

(* ------------------------------------------------------------- the runner *)
allowConcurrentMigration(row) ==
    /\ HasFlag(row.options, "allow-concurrent")
    /\ \/ GetAction(row) \in {"create", "drop", "revert"}
       \/ GetAction(row) = "alter" /\ row.strategy \in {"online", "vitess"}

\* proposedMigrationConflictsWithRunningMigration: the action that
\* allowConcurrentMigration returns for the proposed migration is the action of
\* its statement only when the migration carries allow-concurrent; without
\* the flag it is the zero value of sqlparser.DDLAction, which is not ALTER.
proposedMigrationConflictsWithRunningMigration(running, proposed) ==
    \/ running.mysql_table = proposed.mysql_table
    \/ ~allowConcurrentMigration(running) /\ ~allowConcurrentMigration(proposed)
    \/ /\ HasFlag(proposed.options, "allow-concurrent")
       /\ GetAction(proposed) = "alter"
       /\ ~running.was_ready_to_complete

\* An isAnyConflictingMigrationRunning that finds no conflict.
isAnyConflictingMigrationRunning_Never(S, u) == FALSE

\* isAnyConflictingMigrationRunning: the proposed migration conflicts with a
\* migration of ownedRunningMigrations.
isAnyConflictingMigrationRunning(S, u) ==
    \E r \in S.owned \cap DOMAIN S.m :
        proposedMigrationConflictsWithRunningMigration(Load(S, r), S.m[u])

\* How running a statement on the backend can go: it runs, the connection
\* breaks while it runs, or no connection is had.
DdlOutcomes == {"ok", "fails", "conn_fails"}

\* executeDirectly: sql is onlineDDL.SQL; acceptable tells that the statement
\* answered one of acceptableMySQLErrorCodes.
executeDirectly(S, u, sql, acceptableMySQLErrorCodes, ddl) ==
    IF ddl = "conn_fails" THEN [S |-> S, err |-> TRUE, acceptable |-> FALSE]
    ELSE LET S1 == onSchemaMigrationStatus(S, u, "running")
             r == execSQL(S1.t, sql)
         IN IF ddl = "fails" \/ (r.err # "" /\ r.err \notin acceptableMySQLErrorCodes)
            THEN [S |-> S1, err |-> TRUE, acceptable |-> FALSE]
            ELSE [S |-> onSchemaMigrationStatus([S1 EXCEPT !.t = r.t], u, "complete"),
                  err |-> FALSE, acceptable |-> r.err # ""]

\* How setting up a vreplication workflow can end.
VReplOutcomes == {"ok", "conn_fails", "init_fails", "start_fails"}

\* initVreplicationOriginalMigration: the shadow table is recorded as an
\* artifact, then created.
initVreplicationOriginalMigration(S, u, vr) ==
    LET S1 == updateArtifacts(S, u, VreplTable(u))
    IN IF vr = "init_fails" THEN [S |-> S1, err |-> TRUE]
       ELSE [S |-> [S1 EXCEPT !.t.at[VreplTable(u)] = VreplTable(u)], err |-> FALSE]

\* initVreplicationRevertMigration: the stream of the reverted migration has
\* to be there still; its table is the artifact.
initVreplicationRevertMigration(S, u, r, vr) ==
    IF S.v[r] = NoStream THEN [S |-> S, err |-> TRUE]
    ELSE LET S1 == updateArtifacts(SetColumn(S, u, "mysql_table", S.m[r].mysql_table),
                                   u, VreplTable(r))
         IN [S |-> S1, err |-> vr = "init_fails" \/ ~tableExists(S1, VreplTable(r))]

\* ExecuteWithVReplication; revertMigration is "" for an ALTER.
ExecuteWithVReplication(S, u, revertMigration, primary, vr) ==
    LET S0 == [S EXCEPT !.v[u] = NoStream]
    IN IF ~primary \/ vr = "conn_fails" THEN [S |-> S0, err |-> TRUE]
       ELSE LET S1 == onSchemaMigrationStatus(Store(S0, u, S0.m[u]), u, "running")
                i == IF revertMigration = ""
                     THEN initVreplicationOriginalMigration(S1, u, vr)
                     ELSE initVreplicationRevertMigration(S1, u, revertMigration, vr)
            IN IF i.err THEN i
               ELSE IF vr = "start_fails" THEN [S |-> [i.S EXCEPT !.v[u] = "stopped"], err |-> TRUE]
               ELSE [S |-> [i.S EXCEPT !.v[u] = "running"], err |-> FALSE]

FailIf(r, u) == IF r.err THEN failMigration(r.S, u) ELSE r.S

executeAlterDDLActionMigration(S, u, primary, ddl, vr) ==
    CASE S.m[u].strategy \in {"online", "vitess"} ->
            FailIf(ExecuteWithVReplication(S, u, "", primary, vr), u)
      [] S.m[u].strategy = "mysql" ->
            FailIf(executeDirectly(S, u, AlterTable(S.m[u].mysql_table), {}, ddl), u)
      [] OTHER -> failMigration(S, u)

\* sqlSelectCompleteMigrationsOnTable: the complete migration of the table
\* that carries the latest completed_timestamp (ORDER BY completed_timestamp
\* DESC LIMIT 1), as a set of at most one UUID.
sqlSelectCompleteMigrationsOnTable(S, table) ==
    LET order == CompletedOrder(S)
        complete == {i \in 1..Len(order) :
                        /\ S.m[order[i]].migration_status = "complete"
                        /\ S.m[order[i]].mysql_table = table}
    IN {order[i] : i \in {j \in complete : \A k \in complete : k <= j}}

\* A validateMigrationRevertible that does not ask for the last migration to
\* complete.
validateMigrationRevertible_AnyComplete(S, r, u) ==
    /\ GetAction(S.m[r]) = "alter" => S.m[r].strategy \in {"online", "vitess"}
    /\ S.m[r].migration_status = "complete"
    /\ \A p \in DOMAIN S.m :
          p # u /\ S.m[p].migration_status \in PendingStatuses
              => S.m[p].mysql_table # S.m[r].mysql_table

\* validateMigrationRevertible; TRUE when the migration r can be reverted by u.
validateMigrationRevertible(S, r, u) ==
    /\ GetAction(S.m[r]) = "alter" => S.m[r].strategy \in {"online", "vitess"}
    /\ S.m[r].migration_status = "complete"
    /\ \A p \in DOMAIN S.m :
          p # u /\ S.m[p].migration_status \in PendingStatuses
              => S.m[p].mysql_table # S.m[r].mysql_table
    /\ \A completeUUID \in sqlSelectCompleteMigrationsOnTable(S, S.m[r].mysql_table) :
          completeUUID = r

executeRevert(S, u, primary, ddl, vr) ==
    LET r == S.m[u].reverted_uuid
    IN IF r \notin DOMAIN S.m THEN [S |-> S, err |-> TRUE]
       ELSE IF ~validateMigrationRevertible(S, r, u) THEN [S |-> S, err |-> TRUE]
       ELSE LET artifactTables == S.m[r].artifacts
                artifactTable == CHOOSE a \in artifactTables : TRUE
                table == S.m[r].mysql_table
            IN CASE S.m[r].ddl_action \in {"create", "drop"} ->
                    IF Cardinality(artifactTables) > 1 THEN [S |-> S, err |-> TRUE]
                    ELSE IF artifactTables = {}
                    THEN [S |-> onSchemaMigrationStatus(S, u, "complete"), err |-> FALSE]
                    ELSE LET d == executeDirectly(
                                     updateArtifacts(S, u, artifactTable), u,
                                     IF S.m[r].ddl_action = "create"
                                     THEN RenameTable(table, artifactTable)
                                     ELSE RenameTable(artifactTable, table),
                                     {}, ddl)
                         IN [S |-> d.S, err |-> d.err]
              [] S.m[r].ddl_action = "alter" -> ExecuteWithVReplication(S, u, r, primary, vr)
              [] OTHER -> [S |-> S, err |-> TRUE]

\* readFailedCancelledMigrationsInContextBeforeMigration
readFailedCancelledMigrationsInContextBeforeMigration(S, u) ==
    {p \in DOMAIN S.m : /\ S.m[u].migration_context # ""
                        /\ S.m[p].migration_context = S.m[u].migration_context
                        /\ S.m[p].migration_status \in {"failed", "cancelled"}
                        /\ S.m[p].id < S.m[u].id}

\* A validateInOrderMigration that does not look at the flags of the migration.
validateInOrderMigration_AnyFlags(S, u) ==
    readFailedCancelledMigrationsInContextBeforeMigration(S, u) # {}

\* validateInOrderMigration: TRUE when the migration has to be failed.
validateInOrderMigration(S, u) ==
    /\ HasFlag(S.m[u].options, "in-order-completion")
    /\ readFailedCancelledMigrationsInContextBeforeMigration(S, u) # {}

\* A count that sees no running migration.
countOwnedRunningMigrations_None(S) == 0

\* countOwnedRunningMigrations: the entries of ownedRunningMigrations.
countOwnedRunningMigrations(S) == Cardinality(S.owned)

\* sqlSelectReadyMigrations
sqlSelectReadyMigrations(S) ==
    SeqById(S.m, {u \in DOMAIN S.m : S.m[u].migration_status = "ready"})

\* The loop of getNonConflictingMigration over the ready rows: the state it
\* leaves, the migration it found and the error it returns.  pending is the
\* list of pending UUIDs read before the loop, max the value of the flag
\* max-concurrent-online-ddl.  validateInOrderMigration returns the error it
\* fails the migration with, and the loop returns that error.
RECURSIVE getNonConflictingEach(_, _, _, _)
getNonConflictingEach(S, uuids, pending, max) ==
    IF uuids = <<>> THEN [S |-> S, uuid |-> "", err |-> FALSE]
    ELSE LET u == Head(uuids)
         IN IF isAnyConflictingMigrationRunning(S, u)
            THEN getNonConflictingEach(S, Tail(uuids), pending, max)
            ELSE IF countOwnedRunningMigrations(S) >= max
            THEN [S |-> S, uuid |-> "", err |-> FALSE]
            ELSE IF /\ S.m[u].is_immediate_operation
                    /\ HasFlag(S.m[u].options, "in-order-completion")
                    /\ pending # <<>> /\ Head(pending) # u
            THEN getNonConflictingEach(S, Tail(uuids), pending, max)
            ELSE IF validateInOrderMigration(S, u)
            THEN [S |-> failMigration(S, u), uuid |-> "", err |-> TRUE]
            ELSE [S |-> S, uuid |-> u, err |-> FALSE]

\* getNonConflictingMigration under a flag max-concurrent-online-ddl of max.
getNonConflictingMigrationWith(S, max) ==
    getNonConflictingEach(S, sqlSelectReadyMigrations(S), readPendingMigrationsUUIDs(S.m),
                          max)

getNonConflictingMigration(S) == getNonConflictingMigrationWith(S, maxConcurrentOnlineDDLs)

\* getCompletedMigrationByContextAndSQL: a complete migration of the same
\* context that carries the same statement on the same table.
getCompletedMigrationByContextAndSQL(S, u) ==
    {c \in DOMAIN S.m : /\ c # u
                        /\ S.m[c].migration_status = "complete"
                        /\ S.m[c].migration_context = S.m[u].migration_context
                        /\ S.m[c].statement = S.m[u].statement
                        /\ S.m[c].mysql_table = S.m[u].mysql_table
                        /\ S.m[c].reverted_uuid = S.m[u].reverted_uuid}

\* What evaluateDeclarativeDiff finds of a table that exists: it is what the
\* statement declares, or it differs.
TableOutcomes == {"same", "differs"}

\* The dispatch at the end of executeMigration, by the action of the statement.
dispatchMigration(S, u, action, primary, ddl, vr) ==
    CASE action \in {"create", "drop"} -> [S |-> S, go |-> TRUE]
      [] action = "alter" ->
            [S |-> executeAlterDDLActionMigration(S, u, primary, ddl, vr), go |-> FALSE]
      [] OTHER -> [S |-> FailIf(executeRevert(S, u, primary, ddl, vr), u), go |-> FALSE]

\* executeMigration: the state it leaves and whether it started a goroutine.
executeMigration(S, u, primary, ddl, vr, table) ==
    LET action == GetAction(S.m[u])
        exists == tableExists(S, S.m[u].mysql_table)
        implicit == [S |-> onSchemaMigrationStatus(S, u, "complete"), go |-> FALSE]
    IN IF getCompletedMigrationByContextAndSQL(S, u) # {} THEN implicit
       ELSE IF ~HasFlag(S.m[u].options, "declarative")
       THEN dispatchMigration(S, u, action, primary, ddl, vr)
       ELSE CASE action = "alter" -> [S |-> failMigration(S, u), go |-> FALSE]
              [] action = "drop" ->
                    IF S.m[u].statement = "drop_if_exists"
                    THEN [S |-> failMigration(S, u), go |-> FALSE]
                    ELSE IF ~exists THEN implicit
                    ELSE dispatchMigration(S, u, action, primary, ddl, vr)
              [] action = "create" ->
                    CASE S.m[u].statement = "create_if_not_exists" ->
                            [S |-> failMigration(S, u), go |-> FALSE]
                      [] ~exists -> dispatchMigration(S, u, action, primary, ddl, vr)
                      [] table = "same" -> implicit
                      [] OTHER -> dispatchMigration(SetColumn(S, u, "ddl_action", "alter"), u,
                                                    "alter", primary, ddl, vr)
              [] OTHER -> dispatchMigration(S, u, action, primary, ddl, vr)

\* runNextMigration of the tick, under a flag max-concurrent-online-ddl of max.
\* A runner that looks for a migration although the running migrations were
\* not reviewed since Open.
runnerLooksForMigration_Unreviewed == isOpen = 1

\* runNextMigration goes on to getNonConflictingMigration only when
\* reviewedRunningMigrationsFlag is set.
runnerLooksForMigration == isOpen = 1 /\ reviewedRunningMigrationsFlag

RunNextMigrationWith(max, waiting) ==
    LET found == IF runnerLooksForMigration
                 THEN getNonConflictingMigrationWith(Locked, max)
                 ELSE [S |-> Locked, uuid |-> "", err |-> FALSE]
    IN IF found.uuid = ""
       THEN /\ PhaseReturning("runNextMigration", found.S,
                              IF found.err THEN "ERROR" ELSE "OK")
            /\ UNCHANGED <<reviewedRunningMigrationsFlag, handlers, cancellable,
                  fixCompletedTimestampDone>>
            /\ UntouchedByTick
       ELSE \E ddl \in DdlOutcomes, vr \in VReplOutcomes, table \in TableOutcomes,
               primary \in BOOLEAN :
                LET r == executeMigration(found.S, found.uuid, primary, ddl, vr, table)
                IN /\ r.go => handlers[found.uuid] < waiting
                   /\ Phase("runNextMigration", r.S)
                   /\ handlers' = IF r.go THEN [handlers EXCEPT ![found.uuid] = @ + 1]
                                  ELSE handlers
                   /\ UNCHANGED <<reviewedRunningMigrationsFlag, cancellable,
                                  fixCompletedTimestampDone>>
                   /\ UntouchedByTick

RunNextMigration == RunNextMigrationWith(maxConcurrentOnlineDDLs, MaxHandlers)

\* The goroutine of executeCreateDDLActionMigration or of
\* executeDropDDLActionMigration, from taking migrationMutex to its end.  It
\* works on the migration as the runner read it.
\* A table whose name is of the GC namespace already is dropped as the
\* statement says; any other table is renamed into the GC namespace.
executeDropDDLActionMigration(S, u, ddl) ==
    LET toTableName == HoldTable(u)
        S1 == updateArtifacts(S, u, toTableName)
        r == executeDirectly(S1, u, RenameTable(S.m[u].mysql_table, toTableName),
                             IF S.m[u].statement = "drop_if_exists"
                             THEN acceptableDropTableIfExistsErrorCodes ELSE {},
                             ddl)
    IN IF IsGCTableName(S.m[u].mysql_table)
       THEN FailIf(executeDirectly(S, u, DropTable(S.m[u].mysql_table), {}, ddl), u)
       ELSE IF r.err THEN failMigration(r.S, u)
       ELSE IF r.acceptable THEN clearArtifacts(r.S, u)
       ELSE r.S

\* executeCreateDDLActionMigration, were it to keep the dummy artifact of a
\* CREATE TABLE IF NOT EXISTS whose table exists.
executeCreateDDLActionMigration_KeepsArtifact(S, u, ddl) ==
    LET sentryArtifactTableName == HoldTable(u)
        ifNotExists == S.m[u].statement = "create_if_not_exists"
        S1 == updateArtifacts(S, u, sentryArtifactTableName)
    IN FailIf(executeDirectly(S1, u, CreateTable(S.m[u].mysql_table, ifNotExists, u), {},
                              ddl), u)

\* The dummy artifact of a CREATE tells that the migration created the table.
executeCreateDDLActionMigration(S, u, ddl) ==
    LET sentryArtifactTableName == HoldTable(u)
        ifNotExists == S.m[u].statement = "create_if_not_exists"
        S1 == updateArtifacts(S, u, sentryArtifactTableName)
        S2 == IF ifNotExists /\ tableExists(S1, S.m[u].mysql_table)
              THEN clearArtifacts(S1, u)
              ELSE S1
    IN FailIf(executeDirectly(S2, u, CreateTable(S.m[u].mysql_table, ifNotExists, u), {},
                              ddl), u)

executeCreateDropDDLActionMigration(S, u, ddl) ==
    IF GetAction(S.m[u]) = "create" THEN executeCreateDDLActionMigration(S, u, ddl)
    ELSE executeDropDDLActionMigration(S, u, ddl)

ExecuteCreateDropDDLActionMigration(u) ==
    /\ handlers[u] > 0
    /\ handlers' = [handlers EXCEPT ![u] = @ - 1]
    /\ \E ddl \in DdlOutcomes :
          LET S == executeCreateDropDDLActionMigration(Locked, u, ddl)
          IN /\ Commit(S)
             /\ Return("executeCreateDropDDLActionMigration", u, "OK", 0, S)
    /\ UNCHANGED <<isOpen, EnableOnlineDDL, keyspace, tickReentranceFlag, coolDown, reviewedRunningMigrationsFlag,
                   throttledApps, throttlerOpen, tickPc, postponedAtTick, cancellable, submitting,
                   fixCompletedTimestampDone>>

(* ------------------------------------------------- reviewRunningMigrations *)
\* What the review of one running vreplication migration can meet: the stream
\* cannot be read; it made no progress; it is not ready to cut over; it is
\* ready but the backoff says wait; the cut-over succeeds; the cut-over fails.
ReviewOutcomes == {"read_fails", "stalled", "not_ready", "wait", "cutover"}

(* ---------------------------------------------------------- the cut-over *)
\* The steps of cutOverVReplMigration, were the workflow stopped before the
\* tables are locked.
CutOverPcs_StopsBeforeLock ==
    <<"incrementCutoverAttempts", "readMigration", "updateArtifacts", "createSentry", "waitForPostSentryPos",
      "lockConn", "renameConn", "toggleBuffering", "stopVReplication", "lockTables",
      "rename", "waitForPostLockPos", "validateRename", "dropSentry", "unlockTables",
      "awaitRename", "complete">>

\* The steps of cutOverVReplMigration, were the attempt not counted.
CutOverPcs_NoIncrement ==
    <<"readMigration", "updateArtifacts", "createSentry", "waitForPostSentryPos",
      "lockConn", "renameConn", "toggleBuffering", "lockTables", "rename",
      "waitForPostLockPos", "stopVReplication", "validateRename", "dropSentry",
      "unlockTables", "awaitRename", "complete">>

\* The steps of cutOverVReplMigration, in the order of its code; each is a call
\* that can answer an error, and the function returns at the first error.
CutOverPcs == <<"incrementCutoverAttempts",
                "readMigration", "updateArtifacts", "createSentry", "waitForPostSentryPos",
                "lockConn", "renameConn", "toggleBuffering", "lockTables", "rename",
                "waitForPostLockPos", "stopVReplication", "validateRename", "dropSentry",
                "unlockTables", "awaitRename", "complete">>

\* The deferred calls of the function that can fail on their own.
CutOverDefers == {"dropSentryIfExists", "unlock", "kill", "restart"}

\* The table the stream of u writes to: its own shadow table, or the shadow
\* table of the migration it reverts.
getVreplTable(S, u) ==
    IF IsRevert(S.m[u]) THEN VreplTable(S.m[u].reverted_uuid) ELSE VreplTable(u)

\* sqlSwapTables: RENAME TABLE table TO sentry, vrepl TO table, sentry TO vrepl.
sqlSwapTables(t, table, sentry, vreplTable) ==
    IF t.at[table] = NoTable \/ t.at[vreplTable] = NoTable \/ t.at[sentry] # NoTable
    THEN [t |-> t, err |-> "ERNoSuchTable"]
    ELSE [t |-> [t EXCEPT !.at[table] = t.at[vreplTable], !.at[vreplTable] = t.at[table]],
          err |-> ""]

\* UNLOCK TABLES on the lock connection: the RENAME of the rename connection,
\* when it still waits for the lock, now runs; it fails when the server
\* answers an error (renameFails) or when the sentry table is still there.
unlockTables(S, renameFails) ==
    LET u == S.c.uuid
        r == sqlSwapTables(S.t, S.m[u].mysql_table, SentryTable(u), getVreplTable(S, u))
    IN IF S.c.rename # "blocked" THEN [S EXCEPT !.c.locked = FALSE]
       ELSE IF renameFails \/ r.err # ""
       THEN [S EXCEPT !.c.locked = FALSE, !.c.rename = "failed"]
       ELSE [S EXCEPT !.c.locked = FALSE, !.c.rename = "done", !.t = r.t]

\* toggleBuffering of cutOverVReplMigration and of the special-plan ALTER, on
\* the locals b of the function: buffering tells whether the queries on the
\* table are buffered, enabled and disabled count the calls.
toggleBuffering(b, bufferQueries) ==
    IF bufferQueries THEN [b EXCEPT !.buffering = TRUE, !.enabled = @ + 1]
    ELSE [b EXCEPT !.buffering = FALSE, !.disabled = @ + 1]

\* A reenableWritesOnce without its sync.Once.
reenableWritesOnce_EveryCall(S) ==
    [S EXCEPT !.c = toggleBuffering(@, FALSE)]

\* reenableWritesOnce: toggleBuffering(false) through reenableOnce.Do.
reenableWritesOnce(S) ==
    IF S.c.reenableOnce THEN S
    ELSE [S EXCEPT !.c = [toggleBuffering(@, FALSE) EXCEPT !.reenableOnce = TRUE]]

CutOverNextPc(pc) ==
    CutOverPcs[(CHOOSE i \in 1..Len(CutOverPcs) : CutOverPcs[i] = pc) + 1]

\* One step of cutOverVReplMigration at S.c.pc; ok tells whether its call
\* answers without error.
cutOverStep(S, ok) ==
    LET c == S.c
        u == c.uuid
        sentry == SentryTable(u)
        table == S.m[u].mysql_table
        failed == [S EXCEPT !.c.pc = "return", !.c.err = TRUE]
        on(T) == [T EXCEPT !.c.pc = CutOverNextPc(c.pc), !.c.steps = Append(@, c.pc)]
    IN CASE c.pc = "incrementCutoverAttempts" ->
              IF ok THEN on([S EXCEPT !.m[u].cutover_attempts = @ + 1]) ELSE failed
         [] c.pc = "readMigration" ->
              IF ok THEN on(S) ELSE failed
         [] c.pc = "updateArtifacts" ->
              IF ok THEN on([updateArtifacts(S, u, sentry)
                                EXCEPT !.c.defers = <<"dropSentryIfExists">> \o @])
              ELSE failed
         [] c.pc = "createSentry" ->
              LET r == execSQL(S.t, CreateTable(sentry, TRUE, "sentry"))
              IN IF ok /\ r.err = "" THEN on([S EXCEPT !.t = r.t]) ELSE failed
         [] c.pc = "waitForPostSentryPos" ->
              IF ok THEN on(S) ELSE failed
         [] c.pc = "lockConn" ->
              IF ok THEN on([S EXCEPT !.c.defers = <<"unlock">> \o @]) ELSE failed
         [] c.pc = "renameConn" ->
              IF ok THEN on([S EXCEPT !.c.defers = <<"kill">> \o @]) ELSE failed
         [] c.pc = "toggleBuffering" ->
              on([S EXCEPT !.c = [toggleBuffering(@, TRUE)
                                     EXCEPT !.defers = <<"reenableWritesOnce">> \o @]])
         [] c.pc = "lockTables" ->
              IF ok THEN on([S EXCEPT !.c.locked = TRUE]) ELSE failed
         [] c.pc = "rename" ->
              IF ok THEN on([S EXCEPT !.c.rename = "blocked", !.c.renameCompleteChan = "sending"])
              ELSE [failed EXCEPT !.c.rename = "blocked", !.c.renameCompleteChan = "sending"]
         [] c.pc = "waitForPostLockPos" ->
              IF ok THEN on(updateMigrationTimestamp(S, "liveness_timestamp", u)) ELSE failed
         [] c.pc = "stopVReplication" ->
              IF ok THEN on([S EXCEPT !.v[u] = "stopped", !.c.defers = <<"restart">> \o @])
              ELSE IF c.co.lost THEN [failed EXCEPT !.v[u] = "stopped"]
              ELSE failed
         [] c.pc = "validateRename" ->
              IF ok THEN on(S) ELSE failed
         [] c.pc = "dropSentry" ->
              IF ok THEN on([S EXCEPT !.t.at[sentry] = NoTable,
                                      !.t.dropped = @ \cup {sentry}])
              ELSE failed
         [] c.pc = "unlockTables" ->
              IF ok THEN on(unlockTables(S, c.co.failAt = "awaitRename")) ELSE failed
         [] c.pc = "awaitRename" ->
              IF c.rename = "done"
              THEN on([S EXCEPT !.c.renameWasSuccessful = TRUE,
                                !.c.renameCompleteChan = "received"])
              ELSE [failed EXCEPT !.c.renameCompleteChan = "received"]
         [] OTHER ->
              LET S1 == [reenableWritesOnce(S) EXCEPT !.owned = @ \ {u},
                                                      !.c.steps = Append(@, c.pc)]
              IN [onSchemaMigrationStatus(S1, u, "complete") EXCEPT !.c.pc = "return"]

\* The deferred calls of cutOverVReplMigration, were the workflow not
\* started again.
cutOverDeferred_NoRestart(S, call, fails) ==
    LET c == S.c
        u == c.uuid
        sentry == SentryTable(u)
    IN CASE call = "restart" -> S
         [] call = "reenableWritesOnce" -> reenableWritesOnce(S)
         [] call = "kill" ->
              IF ~c.renameWasSuccessful /\ call \notin fails
              THEN [S EXCEPT !.c.rename = IF @ = "blocked" THEN "killed" ELSE @] ELSE S
         [] call = "unlock" ->
              IF call \notin fails THEN unlockTables(S, FALSE) ELSE S
         [] OTHER ->
              IF call \in fails THEN S
              ELSE clearSingleArtifact(
                       [S EXCEPT !.t.at[sentry] = NoTable,
                                 !.t.dropped = IF S.t.at[sentry] # NoTable
                                               THEN @ \cup {sentry} ELSE @],
                       u, sentry)

\* One deferred call of cutOverVReplMigration; fails holds the deferred calls
\* that answer an error (the error is logged).
cutOverDeferred(S, call, fails) ==
    LET c == S.c
        u == c.uuid
        sentry == SentryTable(u)
    IN CASE call = "restart" ->
              IF ~c.renameWasSuccessful /\ call \notin fails
              THEN [S EXCEPT !.v[u] = "running"] ELSE S
         [] call = "reenableWritesOnce" -> reenableWritesOnce(S)
         [] call = "kill" ->
              IF ~c.renameWasSuccessful /\ call \notin fails
              THEN [S EXCEPT !.c.rename = IF @ = "blocked" THEN "killed" ELSE @] ELSE S
         [] call = "unlock" ->
              IF call \notin fails THEN unlockTables(S, FALSE) ELSE S
         [] OTHER ->
              IF call \in fails THEN S
              ELSE clearSingleArtifact(
                       [S EXCEPT !.t.at[sentry] = NoTable,
                                 !.t.dropped = IF S.t.at[sentry] # NoTable
                                               THEN @ \cup {sentry} ELSE @],
                       u, sentry)

\* The deferred calls run when the function returns, the last deferred first.
RECURSIVE cutOverReturn(_, _)
cutOverReturn(S, fails) ==
    IF S.c.defers = <<>> THEN [S EXCEPT !.c.pc = "done"]
    ELSE cutOverReturn(cutOverDeferred([S EXCEPT !.c.defers = Tail(@)],
                                       Head(S.c.defers), fails), fails)

\* How a cut-over goes: the step that fails ("" for none), the deferred
\* calls that fail (none, one, or both the KILL and the UNLOCK TABLES), and
\* whether the request to stop the workflow, when it fails, has stopped the
\* workflow all the same (its answer is lost).
CutOverOutcomes ==
    {[failAt |-> f, fails |-> d, lost |-> FALSE] :
        f \in {""} \cup {CutOverPcs[i] : i \in 1..Len(CutOverPcs)},
        d \in {{}} \cup {{x} : x \in CutOverDefers} \cup {{"kill", "unlock"}}}
    \cup {[failAt |-> "stopVReplication", fails |-> {}, lost |-> TRUE]}

\* The cut-overs of the life-cycle runs: no call fails; the tables cannot be
\* locked; the RENAME fails and the workflow cannot be started again.
SomeCutOverOutcomes ==
    {[failAt |-> "", fails |-> {}, lost |-> FALSE],
     [failAt |-> "lockTables", fails |-> {}, lost |-> FALSE],
     [failAt |-> "awaitRename", fails |-> {"restart"}, lost |-> FALSE]}

RECURSIVE cutOverRun(_)
cutOverRun(S) ==
    IF S.c.pc = "return" THEN cutOverReturn(S, S.c.co.fails)
    ELSE cutOverRun(cutOverStep(S, S.c.pc # S.c.co.failAt))

\* cutOverVReplMigration
cutOverVReplMigration(S, u, co) ==
    cutOverRun([S EXCEPT !.c = [NoCutOver EXCEPT !.uuid = u, !.pc = CutOverPcs[1],
                                                 !.co = co]])

\* reviewVReplRunningMigration, were it not to store the migration in
\* ownedRunningMigrations.
reviewVReplRunningMigration_NoAdoption(S, u, pending, out, co) ==
    LET row == S.m[u]
        stream == S.v[u]
        none == [S |-> S, cancel |-> {}, err |-> FALSE]
    IN IF out = "read_fails" THEN [none EXCEPT !.err = TRUE]
       ELSE IF stream = NoStream THEN none
       ELSE IF stream # "running"
       THEN [none EXCEPT !.cancel = IF stream = "error" THEN {u} ELSE {}]
       ELSE LET S1 == S
                S2 == IF out # "stalled"
                      THEN updateMigrationTimestamp(S1, "liveness_timestamp", u)
                      ELSE S1
                S3 == IF row.tablet # SelfTablet THEN updateMigrationTablet(S2, u) ELSE S2
                isReady == out \in {"wait", "cutover"}
                S4 == updateMigrationReadyToComplete(S3, u, isReady)
            IN IF validateInOrderMigration(S3, u)
               THEN [none EXCEPT !.S = failMigration(S3, u), !.err = TRUE]
               ELSE IF ~isReady \/ row.postpone_completion THEN [none EXCEPT !.S = S4]
               ELSE IF /\ HasFlag(row.options, "in-order-completion")
                       /\ pending # <<>> /\ Head(pending) # u
               THEN [none EXCEPT !.S = S4]
               ELSE IF out = "wait" THEN [none EXCEPT !.S = S4]
               ELSE LET r == cutOverVReplMigration(S4, u, co)
                    IN [none EXCEPT !.S = r, !.err = r.c.err]

\* A reviewVReplRunningMigration that does not look at postpone_completion.
reviewVReplRunningMigration_IgnoresPostpone(S, u, pending, out, co) ==
    LET row == S.m[u]
        stream == S.v[u]
        none == [S |-> S, cancel |-> {}, err |-> FALSE]
    IN IF out = "read_fails" THEN [none EXCEPT !.err = TRUE]
       ELSE IF stream = NoStream THEN none
       ELSE IF stream # "running"
       THEN [none EXCEPT !.cancel = IF stream = "error" THEN {u} ELSE {}]
       ELSE LET S1 == Store(S, u, S.m[u])
                S2 == IF out # "stalled"
                      THEN updateMigrationTimestamp(S1, "liveness_timestamp", u)
                      ELSE S1
                S3 == IF row.tablet # SelfTablet THEN updateMigrationTablet(S2, u) ELSE S2
                isReady == out \in {"wait", "cutover"}
                S4 == updateMigrationReadyToComplete(S3, u, isReady)
            IN IF validateInOrderMigration(S3, u)
               THEN [none EXCEPT !.S = failMigration(S3, u), !.err = TRUE]
               ELSE IF ~isReady THEN [none EXCEPT !.S = S4]
               ELSE IF /\ HasFlag(row.options, "in-order-completion")
                       /\ pending # <<>> /\ Head(pending) # u
               THEN [none EXCEPT !.S = S4]
               ELSE IF out = "wait" THEN [none EXCEPT !.S = S4]
               ELSE LET r == cutOverVReplMigration(S4, u, co)
                    IN [none EXCEPT !.S = r, !.err = r.c.err]

\* reviewVReplRunningMigration for the row of u, read as row; pending is
\* the list of pending UUIDs read when the review began.
reviewVReplRunningMigration(S, u, pending, out, co) ==
    LET row == S.m[u]
        stream == S.v[u]
        none == [S |-> S, cancel |-> {}, err |-> FALSE]
    IN IF out = "read_fails" THEN [none EXCEPT !.err = TRUE]
       ELSE IF stream = NoStream THEN none
       ELSE IF stream # "running"
       THEN [none EXCEPT !.cancel = IF stream = "error" THEN {u} ELSE {}]
       ELSE LET S1 == Store(S, u, S.m[u])
                S2 == IF out # "stalled"
                      THEN updateMigrationTimestamp(S1, "liveness_timestamp", u)
                      ELSE S1
                S3 == IF row.tablet # SelfTablet THEN updateMigrationTablet(S2, u) ELSE S2
                isReady == out \in {"wait", "cutover"}
                S4 == updateMigrationReadyToComplete(S3, u, isReady)
            IN IF validateInOrderMigration(S3, u)
               THEN [none EXCEPT !.S = failMigration(S3, u), !.err = TRUE]
               ELSE IF ~isReady \/ row.postpone_completion THEN [none EXCEPT !.S = S4]
               ELSE IF /\ HasFlag(row.options, "in-order-completion")
                       /\ pending # <<>> /\ Head(pending) # u
               THEN [none EXCEPT !.S = S4]
               ELSE IF out = "wait" THEN [none EXCEPT !.S = S4]
               ELSE LET r == cutOverVReplMigration(S4, u, co)
                    IN [none EXCEPT !.S = r, !.err = r.c.err]

RECURSIVE reviewRunningEach(_, _, _, _, _)
reviewRunningEach(S, uuids, pending, outs, co) ==
    IF uuids = <<>> THEN [S |-> S, cancel |-> {}, err |-> FALSE]
    ELSE LET u == Head(uuids)
             r == IF S.m[u].strategy \in {"online", "vitess"}
                  THEN reviewVReplRunningMigration(S, u, pending,
                            IF u \in DOMAIN outs THEN outs[u] ELSE "stalled", co)
                  ELSE [S |-> S, cancel |-> {}, err |-> FALSE]
         IN IF r.err THEN r
            ELSE LET rest == reviewRunningEach(r.S, Tail(uuids), pending, outs, co)
                 IN [rest EXCEPT !.cancel = @ \cup r.cancel]

\* sqlSelectRunningMigrations
sqlSelectRunningMigrations(S) ==
    SeqById(S.m, {u \in DOMAIN S.m : S.m[u].migration_status = "running"})

\* The end of reviewRunningMigrations, were nothing taken out of
\* ownedRunningMigrations.
pruneOwned_KeepsAll(owned, running, pending) == owned

\* The end of reviewRunningMigrations: a UUID stays in ownedRunningMigrations
\* when the review has found it running or pending.
pruneOwned(owned, running, pending) ==
    {u \in owned : \/ \E i \in 1..Len(running) : running[i] = u
                   \/ \E i \in 1..Len(pending) : pending[i] = u}

\* reviewRunningMigrations of the tick, its cut-overs going one of the ways
\* cos, and no migration cut over more than max times.
ReviewRunningMigrationsUpTo(cos, max) ==
    /\ tickPc = "reviewRunningMigrations"
    /\ \E outs \in [{u \in Stored : Status(u) = "running" /\ vrepl[u] = "running"}
                    -> ReviewOutcomes] :
        \E co \in IF \E u \in DOMAIN outs : outs[u] = "cutover" THEN cos
                  ELSE {CHOOSE c \in cos : TRUE} :
        /\ \A u \in DOMAIN outs :
              outs[u] = "cutover" => migrations[u].cutover_attempts < max
        /\ LET running == sqlSelectRunningMigrations(Locked)
            pending == readPendingMigrationsUUIDs(migrations)
            r == reviewRunningEach(Locked, running, pending, outs, co)
            kept == pruneOwned(r.S.owned, running, pending)
            done == [r.S EXCEPT !.owned = kept]
           IN IF isOpen = 0
           THEN /\ Phase("reviewRunningMigrations", Locked)
                /\ cancellable' = {}
                /\ UNCHANGED <<reviewedRunningMigrationsFlag, handlers,
                               fixCompletedTimestampDone>>
                /\ UntouchedByTick
           ELSE /\ PhaseReturning("reviewRunningMigrations", IF r.err THEN r.S ELSE done,
                                  IF r.err THEN "ERROR" ELSE "OK")
                /\ cancellable' = IF r.err THEN {} ELSE r.cancel
                /\ reviewedRunningMigrationsFlag' =
                       IF r.err THEN reviewedRunningMigrationsFlag ELSE TRUE
                /\ UNCHANGED <<handlers, fixCompletedTimestampDone>>
                /\ UntouchedByTick

ReviewRunningMigrationsWith(cos) == ReviewRunningMigrationsUpTo(cos, MaxAttempts)

\* The cut-overs a row can have where cut-overs are not what is looked at.
OneAttempt == 1

ReviewRunningMigrations == ReviewRunningMigrationsUpTo(SomeCutOverOutcomes, OneAttempt)

\* cancelMigrations(cancellable, issuedByUser = false) of the tick.
CancelMigrations ==
    \E rpcs \in [cancellable -> RpcOutcomes] :
        LET r == cancelEach(Locked, isOpen = 1, SeqById(migrations, cancellable), FALSE, rpcs)
        IN /\ Phase("cancelMigrations", r.S)
           /\ cancellable' = {}
           /\ UNCHANGED <<reviewedRunningMigrationsFlag, handlers,
                          fixCompletedTimestampDone>>
           /\ UntouchedByTick

(* ------------------------------------------------------- stale migrations *)
\* The minutes since a liveness_timestamp was written: it is "fresh" when
\* written, "aging" a minute before it counts as stale, "stale" from then on.
MinutesSince(liveness) ==
    CASE liveness = "fresh" -> 0
      [] liveness = "aging" -> staleMigrationFailMinutes - 1
      [] liveness = "stale" -> staleMigrationFailMinutes

IsStale(row) ==
    /\ row.migration_status = "running"
    /\ row.liveness_timestamp # "null"
    /\ MinutesSince(row.liveness_timestamp) >= staleMigrationFailMinutes

\* sqlSelectStaleMigrations: running rows that showed no liveness in the
\* past staleMigrationFailMinutes minutes.
sqlSelectStaleMigrations(S) == SeqById(S.m, {u \in DOMAIN S.m : IsStale(S.m[u])})

\* monitorStaleMigrations only reads the table and sets a gauge.
MonitorStaleMigrations ==
    /\ Phase("monitorStaleMigrations", Locked)
    /\ UNCHANGED <<reviewedRunningMigrationsFlag, handlers, cancellable,
                  fixCompletedTimestampDone>>
    /\ UntouchedByTick

\* A stale review that leaves completed_timestamp alone.
RECURSIVE reviewStaleEach_NotCompleted(_, _, _)
reviewStaleEach_NotCompleted(S, uuids, rpcs) ==
    IF uuids = <<>> THEN S
    ELSE LET u == Head(uuids)
             S1 == IF S.m[u].tablet # SelfTablet THEN updateTabletFailure(S, u) ELSE S
             t == terminateMigration(S1, u, rpcs[u])
         IN IF t.err THEN reviewStaleEach_NotCompleted(t.S, Tail(uuids), rpcs)
            ELSE reviewStaleEach_NotCompleted(
                    updateMigrationStartedTimestamp(
                        updateMigrationStatus(t.S, u, "failed"), u),
                    Tail(uuids), rpcs)

RECURSIVE reviewStaleEach(_, _, _)
reviewStaleEach(S, uuids, rpcs) ==
    IF uuids = <<>> THEN S
    ELSE LET u == Head(uuids)
             S1 == IF S.m[u].tablet # SelfTablet THEN updateTabletFailure(S, u) ELSE S
             t == terminateMigration(S1, u, rpcs[u])
         IN IF t.err THEN reviewStaleEach(t.S, Tail(uuids), rpcs)
            ELSE reviewStaleEach(
                    updateMigrationTimestamp(
                        updateMigrationStartedTimestamp(
                            updateMigrationStatus(t.S, u, "failed"), u),
                        "completed_timestamp", u),
                    Tail(uuids), rpcs)

reviewStaleMigrations(S, rpcs) == reviewStaleEach(S, sqlSelectStaleMigrations(S), rpcs)

\* The stale review when its calls to other services end as rpcs says.
ReviewStaleMigrationsWith(rpcs) ==
    /\ Phase("reviewStaleMigrations",
             IF isOpen = 1 THEN reviewStaleMigrations(Locked, rpcs) ELSE Locked)
    /\ UNCHANGED <<reviewedRunningMigrationsFlag, handlers, cancellable,
                  fixCompletedTimestampDone>>
    /\ UntouchedByTick

StaleRows == {u \in Stored : IsStale(migrations[u])}

ReviewStaleMigrations ==
    \E rpcs \in [StaleRows -> RpcOutcomes] : ReviewStaleMigrationsWith(rpcs)

(* ------------------------------------------------------------ gcArtifacts *)
\* sqlFixCompletedTimestamp: failed and cancelled rows that carry no
\* completed_timestamp get one.
sqlFixCompletedTimestamp(S) ==
    [S EXCEPT !.m = [u \in DOMAIN S.m |->
        IF S.m[u].migration_status \in {"failed", "cancelled"} /\ ~S.m[u].cleanup_timestamp
        THEN [S.m[u] EXCEPT !.completed_timestamp = TRUE]
        ELSE S.m[u]]]

\* sqlSelectUncollectedArtifacts: terminal rows, completed longer ago than their
\* retention, not cleaned up yet; elapsed tells whether the default retention
\* has passed (a row made ready for cleanup waits for nothing).
sqlSelectUncollectedArtifacts(S, elapsed) ==
    {u \in DOMAIN S.m : /\ S.m[u].migration_status \in TerminalStatuses
                        /\ ~S.m[u].cleanup_timestamp
                        /\ S.m[u].completed_timestamp
                        /\ (S.m[u].ready_for_cleanup \/ elapsed)}

\* gcArtifactTable, were it to drop the table.
gcArtifactTables_Drops(t, artifactTables) ==
    [t EXCEPT !.at = [n \in TableNames |->
                        IF n \in artifactTables THEN NoTable ELSE t.at[n]],
              !.dropped = @ \cup {n \in artifactTables : t.at[n] # NoTable}]

\* gcArtifactTable for the artifacts of the rows us: a table that exists is
\* renamed into the GC namespace under a new name, and is gone for the executor.
gcArtifactTables(t, artifactTables) ==
    [t EXCEPT !.at = [n \in TableNames |->
                        IF n \in artifactTables THEN NoTable ELSE t.at[n]],
              !.gc = @ \cup {n \in artifactTables : t.at[n] # NoTable}]

gcArtifacts(S, elapsed) ==
    LET S1 == IF fixCompletedTimestampDone THEN S ELSE sqlFixCompletedTimestamp(S)
        us == sqlSelectUncollectedArtifacts(S1, elapsed)
    IN [S1 EXCEPT !.m = [u \in DOMAIN S1.m |->
                            IF u \in us
                            THEN [S1.m[u] EXCEPT !.artifacts = {}, !.cleanup_timestamp = TRUE]
                            ELSE S1.m[u]],
                  !.t = gcArtifactTables(S1.t, UNION {S1.m[u].artifacts : u \in us}),
                  !.v = [u \in UUIDs |-> IF u \in us THEN NoStream ELSE S1.v[u]]]

GcArtifacts ==
    \E elapsed \in BOOLEAN :
        /\ Phase("gcArtifacts", IF isOpen = 1 THEN gcArtifacts(Locked, elapsed) ELSE Locked)
        /\ fixCompletedTimestampDone' = (fixCompletedTimestampDone \/ isOpen = 1)
        /\ UNCHANGED <<reviewedRunningMigrationsFlag, handlers, cancellable>>
        /\ UntouchedByTick

(* -------------------------------------------------------- the environment *)
\* Time passes without a sign of life of a running migration.
LivenessAges(u) ==
    /\ tickPc = "idle"
    /\ u \in Stored
    /\ migrations[u].migration_status = "running"
    /\ \E older \in {"aging", "stale"} :
          /\ migrations[u].liveness_timestamp \in {"fresh", "aging"}
          /\ migrations[u].liveness_timestamp # older
          /\ migrations' = [migrations EXCEPT ![u].liveness_timestamp = older]
    /\ lastCall' = [op |-> "time", uuid |-> u, code |-> "OK", rows |-> 0, edges |-> {}]
    /\ UNCHANGED <<ownedRunningMigrations, ownedObjects, threads, isOpen, EnableOnlineDDL, keyspace, tickReentranceFlag, coolDown, reviewedRunningMigrationsFlag, vrepl, tables, cutOver, completions, throttledApps, throttlerOpen,
                   handlers, tickPc, postponedAtTick, cancellable, submitting, fixCompletedTimestampDone>>
    /\ writtenUnder' = {}

\* A vreplication stream meets an error it cannot recover from.
StreamFails(u) ==
    /\ vrepl[u] = "running"
    /\ vrepl' = [vrepl EXCEPT ![u] = "error"]
    /\ lastCall' = [op |-> "vreplication", uuid |-> u, code |-> "OK", rows |-> 0,
                    edges |-> {}]
    /\ UNCHANGED <<migrations, tables, cutOver, completions, ownedRunningMigrations, ownedObjects, threads, isOpen, EnableOnlineDDL, keyspace, tickReentranceFlag, coolDown, reviewedRunningMigrationsFlag, throttledApps, throttlerOpen,
                   handlers, tickPc, postponedAtTick, cancellable, submitting, fixCompletedTimestampDone>>
    /\ writtenUnder' = {}

\* The tablet is closed and another tablet served as primary meanwhile: the
\* rows now carry the other tablet's alias.
Reparent ==
    /\ isOpen = 0
    /\ \E u \in Stored : migrations[u].tablet = SelfTablet
    /\ migrations' = [u \in Stored |-> [migrations[u] EXCEPT !.tablet = OtherTablet]]
    /\ lastCall' = [op |-> "reparent", uuid |-> "", code |-> "OK", rows |-> 0, edges |-> {}]
    /\ UNCHANGED <<ownedRunningMigrations, ownedObjects, threads, isOpen, EnableOnlineDDL, keyspace, tickReentranceFlag, coolDown, reviewedRunningMigrationsFlag, vrepl, tables, cutOver, completions, throttledApps, throttlerOpen,
                   handlers, tickPc, postponedAtTick, cancellable, submitting, fixCompletedTimestampDone>>
    /\ writtenUnder' = {}

(* ------------------------------------------------------ the specification *)
\* A submitted statement, decoded: OnlineDDLFromCommentedStatement.
OnlineDDL(u, context, table, statement, strategy, options, threshold, reverted) ==
    [uuid |-> u, migration_context |-> context, table |-> table, statement |-> statement,
     strategy |-> strategy, options |-> options, threshold |-> threshold,
     reverted_uuid |-> reverted]

\* The migration of the life-cycle runs: an ALTER under vreplication, an ALTER
\* run directly, a CREATE, a declarative DROP, or the REVERT of a migration
\* that does not exist.
Submissions ==
    {OnlineDDL("u1", "c1", "t1", "alter", "vitess", {}, 0, ""),
     OnlineDDL("u1", "c1", "t1", "alter", "mysql", {}, 0, ""),
     OnlineDDL("u1", "c1", "t1", "create", "vitess", {}, 0, ""),
     OnlineDDL("u1", "c1", "t1", "drop", "vitess", {"declarative"}, 0, ""),
     OnlineDDL("u1", "c1", "", "revert", "vitess", {}, 0, "u2")}

Submitted == {d.uuid : d \in Submissions}

StaleSubmissions == {OnlineDDL("u1", "c1", "t1", "alter", "vitess", {}, 0, "")}

\* The tick, its cut-overs going one of the ways cos, and no migration cut
\* over more than max times.
TickUpTo(cos, max) ==
    \/ TickStart
    \/ CoolDownExpires
    \/ RetryTabletFailureMigrations
    \/ ReviewQueuedMigrations
    \/ ScheduleNextMigration
    \/ RunNextMigration
    \/ ReviewRunningMigrationsUpTo(cos, max)
    \/ CancelMigrations
    \/ MonitorStaleMigrations
    \/ ReviewStaleMigrations
    \/ GcArtifacts

TickWith(cos) == TickUpTo(cos, MaxAttempts)

Tick == TickUpTo(SomeCutOverOutcomes, OneAttempt)

Next ==
    \/ Open
    \/ Close
    \/ \E d \in Submissions : SubmitMigration(d)
    \/ \E u \in Submitted, issuedByUser \in BOOLEAN : CancelMigration(u, issuedByUser)
    \/ \E u \in Submitted : RetryMigration(u)
    \/ Tick
    \/ \E u \in Submitted : ExecuteCreateDropDDLActionMigration(u)
    \/ \E u \in Submitted : StreamFails(u)

Spec == Init /\ [][Next]_vars

(* ------------------------------- the specification of abandoned migrations *)
\* One ALTER under vreplication on a tablet that opens and closes: time passes
\* without a sign of life of the migration, its stream can fail, and another
\* tablet can serve as primary while this one is closed.
NextStale ==
    \/ Open
    \/ Close
    \/ \E d \in StaleSubmissions : SubmitMigration(d)
    \/ Tick
    \/ LivenessAges("u1")
    \/ StreamFails("u1")
    \/ Reparent

SpecStale == Init /\ [][NextStale]_vars

(* --------------------------------------- the specification of admission *)
\* Submissions with every combination of the singleton flags.  u1 is the
\* migration that is there first: an ALTER, or a REVERT with or without
\* singleton-context, in context c1 on table t1.  u2 is an ALTER in the same
\* context on the same table, or in another context on another table.
AdmissionSubmissions ==
    {OnlineDDL("u1", "c1", "t1", "alter", "vitess", {}, 0, ""),
     OnlineDDL("u1", "c1", "t1", "revert", "vitess", {}, 0, "u0"),
     OnlineDDL("u1", "c1", "t1", "revert", "vitess", {"singleton-context"}, 0, "u0")}
    \cup
    {OnlineDDL("u2", place[1], place[2], "alter", "vitess", options, 0, "") :
        place \in {<<"c1", "t1">>, <<"c2", "t2">>}, options \in SUBSET SingletonFlags}

NextAdmission ==
    \/ Open
    \/ \E d \in AdmissionSubmissions : SubmitMigration(d)
    \/ SubmitMigrationCallback
    \/ CancelMigration("u1", TRUE)
    \/ RetryMigration("u1")

SpecAdmission == Init /\ [][NextAdmission]_vars

\* The migrations that are stored when u is submitted: u1, u2, u3 in turn.
SubmittedBefore(u) == CASE u = "u1" -> {} [] u = "u2" -> {"u1"} [] OTHER -> {"u1", "u2"}

(* ------------------------------------------- the specification of the API *)
APISubmissions ==
    {OnlineDDL("u1", "c1", "t1", "alter", "vitess",
               {"postpone-launch", "postpone-completion"}, 0, "")}

\* Every operation of the API on one migration, on an executor and a
\* throttler that open and close.
NextAPI ==
    \/ Open
    \/ Close
    \/ ThrottlerOpenClose
    \/ \E d \in APISubmissions : SubmitMigration(d)
    \/ \E issuedByUser \in BOOLEAN : CancelMigration("u1", issuedByUser)
    \/ \E issuedByUser \in BOOLEAN : CancelPendingMigrations(issuedByUser)
    \/ RetryMigration("u1")
    \/ CleanupMigration("u1")
    \/ CleanupAllMigrations
    \/ ForceCutOverMigration("u1")
    \/ ForceCutOverPendingMigrations
    \/ CompleteMigration("u1")
    \/ CompletePendingMigrations
    \/ PostponeCompleteMigration("u1")
    \/ PostponeCompletePendingMigrations
    \/ LaunchMigration("u1")
    \/ LaunchMigrations
    \/ \E threshold \in {0, minCutOverThreshold} : SetMigrationCutOverThreshold("u1", threshold)
    \/ ThrottleMigration("u1")
    \/ ThrottleAllMigrations
    \/ UnthrottleMigration("u1")
    \/ UnthrottleAllMigrations

SpecAPI == InitKeyspace /\ [][NextAPI]_vars

(* ------------------------------ the specification of cut-over thresholds *)
\* Durations in milliseconds around the limits of the cut-over threshold.
Durations ==
    {-1, 0, 1, minCutOverThreshold - 1, minCutOverThreshold, minCutOverThreshold + 500,
     defaultCutOverThreshold, maxCutOverThreshold, maxCutOverThreshold + 1,
     2 * maxCutOverThreshold}

ThresholdUUIDs == {"u1", "u2"}

ThresholdSubmissions ==
    {OnlineDDL(u, "c1", "t1", "alter", "vitess", {}, threshold, "") :
        u \in ThresholdUUIDs, threshold \in Durations}

NextThreshold ==
    \/ Open
    \/ Close
    \/ \E d \in ThresholdSubmissions : SubmitMigration(d)
    \/ \E u \in ThresholdUUIDs, threshold \in Durations :
          SetMigrationCutOverThreshold(u, threshold)

SpecThreshold == Init /\ [][NextThreshold]_vars

(* ------------------------------------------ the specification of tables *)
\* u1 creates, drops or alters t1, on a database that has t1 or has it not;
\* u2 reverts u1, or drops the table that the DROP of u1 left in the GC
\* namespace.  Each is submitted once, u1 first.  A cut-over goes as in the
\* life-cycle runs, or it fails and its sentry table cannot be dropped.
TablesCutOverOutcomes ==
    SomeCutOverOutcomes
        \cup {[failAt |-> "lockTables", fails |-> {"dropSentryIfExists"}, lost |-> FALSE]}

InitTables == \E live \in SUBSET {"t1"} : InitWith(live)

TableSubmissions ==
    {OnlineDDL("u1", "c1", "t1", statement, "vitess", {}, 0, "") :
        statement \in {"create", "create_if_not_exists", "drop", "drop_if_exists", "alter"}}
    \cup
    {OnlineDDL("u2", "c1", "", "revert", "vitess", {}, 0, "u1"),
     OnlineDDL("u2", "c1", HoldTable("u1"), "drop", "vitess", {}, 0, "")}

NextTables ==
    \/ Open
    \/ \E d \in TableSubmissions :
          /\ Stored = SubmittedBefore(d.uuid)
          /\ SubmitMigration(d)
    \/ TickUpTo(TablesCutOverOutcomes, OneAttempt)
    \/ \E u \in UUIDs : ExecuteCreateDropDDLActionMigration(u)

SpecTables == InitTables /\ [][NextTables]_vars

(* ---------------------------------------- the specification of cut-overs *)
\* One ALTER under vreplication, whose cut-over can fail at any step and in
\* any one of its deferred calls; its stream can fail, and it can be cancelled.
CutOverSubmissions == {OnlineDDL("u1", "c1", "t1", "alter", "vitess", {}, 0, "")}

NextCutOver ==
    \/ Open
    \/ \E d \in CutOverSubmissions : SubmitMigration(d)
    \/ TickWith(CutOverOutcomes)
    \/ StreamFails("u1")
    \/ \E issuedByUser \in BOOLEAN : CancelMigration("u1", issuedByUser)

SpecCutOver == Init /\ [][NextCutOver]_vars

(* ------------------------------------------ the specification of reverts *)
\* u1 creates, drops or alters t1, on a database that has t1 or has it not;
\* u2 reverts u1 or alters t1 in turn; u3 reverts u1 or u2.  Each is submitted
\* once, u1 first and u3 last, and every cut-over succeeds.
RevertSubmissions ==
    {OnlineDDL("u1", "c1", "t1", "create", "vitess", {}, 0, "")} \cup
    {OnlineDDL("u1", "c1", "t1", "drop", "vitess", {}, 0, ""),
     OnlineDDL("u1", "c1", "t1", "alter", "vitess", {}, 0, ""),
     OnlineDDL("u1", "c1", "t1", "alter", "mysql", {}, 0, ""),
     OnlineDDL("u2", "c1", "", "revert", "vitess", {}, 0, "u1"),
     OnlineDDL("u2", "c1", "t1", "alter", "mysql", {}, 0, ""),
     OnlineDDL("u3", "c1", "", "revert", "vitess", {}, 0, "u1"),
     OnlineDDL("u3", "c1", "", "revert", "vitess", {}, 0, "u2")}

RevertCutOverOutcomes == {[failAt |-> "", fails |-> {}, lost |-> FALSE]}

NextRevert ==
    \/ Open
    \/ \E d \in RevertSubmissions :
          /\ Stored = SubmittedBefore(d.uuid)
          /\ SubmitMigration(d)
    \/ TickWith(RevertCutOverOutcomes)
    \/ \E u \in UUIDs : ExecuteCreateDropDDLActionMigration(u)

SpecRevert == InitTables /\ [][NextRevert]_vars

(* -------------------------------- the specification of concurrent migrations *)
\* u1 alters t1 under vreplication or creates t2; u2, which may run
\* concurrently, creates t2 or alters t1.  Each is submitted once, u1 first,
\* u1 can be cancelled, and every cut-over succeeds.
ConcurrentSubmissions ==
    {OnlineDDL("u1", "c1", "t1", "alter", "vitess", {}, 0, ""),
     OnlineDDL("u1", "c1", "t2", "create", "vitess", {}, 0, ""),
     OnlineDDL("u2", "c1", "t2", "create", "vitess", {"allow-concurrent"}, 0, ""),
     OnlineDDL("u2", "c1", "t1", "alter", "vitess", {"allow-concurrent"}, 0, "")}

NextConcurrent ==
    \/ Open
    \/ \E d \in ConcurrentSubmissions :
          /\ Stored = SubmittedBefore(d.uuid)
          /\ SubmitMigration(d)
    \/ \E issuedByUser \in BOOLEAN : CancelMigration("u1", issuedByUser)
    \/ TickWith(RevertCutOverOutcomes)
    \/ \E u \in UUIDs : ExecuteCreateDropDDLActionMigration(u)

SpecConcurrent == Init /\ [][NextConcurrent]_vars

\* The same migrations on an executor that is closed and opened again at any
\* time, and no cancellation.
NextReopen ==
    \/ Open
    \/ Close
    \/ \E d \in ConcurrentSubmissions :
          /\ Stored = SubmittedBefore(d.uuid)
          /\ SubmitMigration(d)
    \/ TickWith(RevertCutOverOutcomes)
    \/ \E u \in UUIDs : ExecuteCreateDropDDLActionMigration(u)

SpecReopen == Init /\ [][NextReopen]_vars

(* -------------------------------------------- the specification of the tick *)
\* One ALTER under vreplication; onMigrationCheckTick is called at any time,
\* by the ticker or by a trigger, also while it runs or cools down.
NextTick ==
    \/ Open
    \/ Close
    \/ \E d \in CutOverSubmissions : SubmitMigration(d)
    \/ Tick
    \/ TickSkipped

SpecTick == Init /\ [][NextTick]_vars

(* ============================================================== properties *)
LegalEdges ==
    {<<"queued", "ready">>, <<"ready", "running">>,
     <<"running", "complete">>, <<"running", "failed">>, <<"running", "cancelled">>,
     <<"complete", "queued">>, <<"failed", "queued">>, <<"cancelled", "queued">>}

\* C1 as stated: every status change any operation writes is queued->ready,
\* ready->running, running->{complete, failed, cancelled} or a retry
\* (terminal->queued).
C1_OnlyLegalEdges == lastCall.edges \subseteq LegalEdges

\* What cancelling, failing and implicit completion add: a queued or ready
\* row is failed or cancelled, a ready row is completed without running.
EarlyEndEdges ==
    {<<"queued", "failed">>, <<"queued", "cancelled">>, <<"ready", "failed">>,
     <<"ready", "cancelled">>, <<"ready", "complete">>}

GoroutineOps == {"executeCreateDropDDLActionMigration"}

\* C1, amended: the API operations and the phases of the tick change a status
\* only along the legal edges or the early ends; the goroutine of a CREATE or
\* DROP handler writes running, complete, failed or cancelled over whatever
\* status the row has when it runs, and never queued or ready.
C1_EdgesByOperation ==
    IF lastCall.op \in GoroutineOps
    THEN \A e \in lastCall.edges : e[2] \in {"running", "complete", "failed", "cancelled"}
    ELSE lastCall.edges \subseteq LegalEdges \cup EarlyEndEdges

\* C1 witness: Cancel moved a queued row to cancelled.
C1_Witness ==
    /\ lastCall.op = "CancelMigration"
    /\ <<"queued", "cancelled">> \in lastCall.edges

\* A submission that the executor takes up: it is open, and a stored row of
\* the same UUID has the same context.
IsAdmissible(d) ==
    /\ isOpen = 1
    /\ d.uuid \in Stored => migrations[d.uuid].migration_context = d.migration_context

\* C2 as stated: a SubmitMigration of a stored UUID with the same context
\* succeeds whatever its flags, changes nothing when the row is pending, and
\* retries the row when it is terminal.
C2_ResubmitIsRetryOrNoop ==
    [][\A d \in AdmissionSubmissions :
          (SubmitMigration(d) /\ IsAdmissible(d) /\ d.uuid \in Stored)
          => /\ lastCall'.code = "OK"
             /\ DOMAIN migrations' = DOMAIN migrations
             /\ IsPending(d.uuid) => migrations' = migrations
             /\ (IsTerminal(d.uuid) /\ submitting' = NoSubmission)
                    => migrations' = sqlRetryMigration(Begin, d.uuid).m]_vars

\* C3: a SubmitMigration with the singleton flag is rejected with
\* FAILED_PRECONDITION whenever a pending migration exists, and a submission
\* with a singleton flag that is rejected leaves the table, the ownership set
\* and the streams as they were, with no row for a UUID that was not stored.
C3_SingletonRejection ==
    [][\A d \in AdmissionSubmissions :
          SubmitMigration(d)
          => /\ (HasFlag(d.options, "singleton") /\ sqlSelectPendingMigrations # {})
                    => lastCall'.code = "FAILED_PRECONDITION"
             /\ (d.options \cap SingletonFlags # {} /\ lastCall'.code = "FAILED_PRECONDITION")
                    => /\ UNCHANGED <<migrations, ownedRunningMigrations, vrepl, tables>>
                       /\ submitting' = NoSubmission]_vars

\* C3 witness: a submission of a UUID that is not stored was rejected on an
\* open executor while another migration is pending.
C3_Witness ==
    /\ lastCall.op = "SubmitMigration" /\ lastCall.code = "FAILED_PRECONDITION"
    /\ isOpen = 1
    /\ lastCall.uuid \notin Stored
    /\ sqlSelectPendingMigrations # {}

\* The pending migrations C4 names: of another context, and not a REVERT that
\* lacks singleton-context.
ContextConflicts(d) ==
    {p \in sqlSelectPendingMigrations :
        /\ migrations[p].migration_context # d.migration_context
        /\ ~(migrations[p].statement = "revert"
             /\ "singleton-context" \notin migrations[p].options)}

\* C4 as stated: a SubmitMigration with singleton-context is rejected exactly
\* when such a pending migration exists.
C4_SingletonContextIff ==
    [][\A d \in AdmissionSubmissions :
          (SubmitMigration(d) /\ IsAdmissible(d) /\ HasFlag(d.options, "singleton-context"))
          => (lastCall'.code = "FAILED_PRECONDITION" <=> ContextConflicts(d) # {})]_vars

\* C4, amended: that holds of a submission with singleton-context and without
\* singleton; with singleton as well, the submission is rejected exactly when
\* any migration is pending, of whatever context.
C4_SingletonContextAlone ==
    [][\A d \in AdmissionSubmissions :
          (SubmitMigration(d) /\ IsAdmissible(d) /\ HasFlag(d.options, "singleton-context"))
          => (lastCall'.code = "FAILED_PRECONDITION"
                <=> IF HasFlag(d.options, "singleton")
                    THEN sqlSelectPendingMigrations # {}
                    ELSE ContextConflicts(d) # {})]_vars

\* C4 witness: a submission with singleton-context passed the check while a
\* REVERT of another context is pending.
C4_Witness ==
    /\ submitting # NoSubmission
    /\ HasFlag(submitting.d.options, "singleton-context")
    /\ ~HasFlag(submitting.d.options, "singleton")
    /\ \E p \in sqlSelectPendingMigrations :
          /\ IsRevert(migrations[p])
          /\ migrations[p].migration_context # submitting.d.migration_context

\* C5 as stated: a SubmitMigration with singleton-table is rejected whenever a
\* pending migration is on the same table, whatever other flags it carries.
C5_SingletonTableRejects ==
    [][\A d \in AdmissionSubmissions :
          (/\ SubmitMigration(d) /\ IsAdmissible(d)
           /\ HasFlag(d.options, "singleton-table")
           /\ \E p \in sqlSelectPendingMigrations : migrations[p].mysql_table = d.table)
          => lastCall'.code = "FAILED_PRECONDITION"]_vars

\* Some call of CancelMigration(u, ...) is this step.
IsCancelOf(u) == \E issuedByUser \in BOOLEAN : CancelMigration(u, issuedByUser)

\* C6: a CancelMigration(U) that follows a CancelMigration(U) that went through
\* finds U terminal, returns the empty result, and changes neither the table,
\* the ownership set nor a stream.
C6_SecondCancelIsNoop ==
    [][\A u \in UUIDs :
          (/\ lastCall.op = "CancelMigration" /\ lastCall.uuid = u
           /\ lastCall.code # "FAILED_PRECONDITION"
           /\ u \in Stored
           /\ lastCall'.op = "CancelMigration"
           /\ IsCancelOf(u))
          => /\ IsTerminal(u)
             /\ lastCall'.code = "OK" /\ lastCall'.rows = 0
             /\ UNCHANGED <<migrations, ownedRunningMigrations, vrepl, tables>>]_vars

\* C6 witness: a CancelMigration of a row that a user had cancelled returned
\* the empty result.
C6_Witness ==
    /\ lastCall.op = "CancelMigration" /\ lastCall.code = "OK"
    /\ lastCall.rows = 0 /\ lastCall.edges = {}
    /\ lastCall.uuid \in Stored
    /\ Status(lastCall.uuid) = "cancelled"

\* What C7 says of the row: cancelled and stamped when the user asked,
\* failed and not stamped otherwise.
CancelledOrFailed(u, issuedByUser) ==
    /\ migrations'[u].migration_status = IF issuedByUser THEN "cancelled" ELSE "failed"
    /\ migrations'[u].cancelled_timestamp = issuedByUser

\* C7 as stated: a CancelMigration of a pending row by the user ends in
\* cancelled with cancelled_timestamp stamped, an internal one in failed
\* without the stamp, and the stream of a row that was running is terminated
\* in both cases.
C7_CancelTerminates ==
    [][\A u \in UUIDs, issuedByUser \in BOOLEAN :
          (/\ lastCall'.op = "CancelMigration" /\ isOpen = 1 /\ IsPending(u)
           /\ CancelMigration(u, issuedByUser))
          => /\ CancelledOrFailed(u, issuedByUser)
             /\ Status(u) = "running" => vrepl'[u] # "running"]_vars

\* C7, amended: the row ends as stated and leaves the ownership set; the
\* stream of a row that was running is stopped when the tablet lookup and the
\* request to stop it succeed, and is left as it was when either fails, the
\* call returning an error when the lookup failed.
C7_CancelOutcome ==
    [][\A u \in UUIDs, issuedByUser \in BOOLEAN, rpc \in RpcOutcomes :
          (/\ lastCall'.op = "CancelMigration" /\ isOpen = 1 /\ IsPending(u)
           /\ CancelMigrationWith(u, issuedByUser, rpc))
          => /\ CancelledOrFailed(u, issuedByUser)
             /\ u \notin ownedRunningMigrations'
             /\ (Status(u) = "running" /\ rpc = "ok") => vrepl'[u] # "running"
             /\ (Status(u) = "running" /\ rpc # "ok") => vrepl'[u] = vrepl[u]
             /\ Status(u) # "running" => vrepl'[u] = vrepl[u]
             /\ lastCall'.code = IF Status(u) = "running" /\ rpc = "topo_fails"
                                 THEN "UNKNOWN" ELSE "OK"]_vars

\* C7 witness: a running row was cancelled by the user and its stream stopped.
C7_Witness ==
    /\ lastCall.op = "CancelMigration"
    /\ <<"running", "cancelled">> \in lastCall.edges
    /\ migrations[lastCall.uuid].cancelled_timestamp
    /\ vrepl[lastCall.uuid] = "stopped"

\* C10 as stated: the stale review leaves every running row whose liveness is
\* staleMigrationFailMinutes old or older with its stream stopped, in status
\* failed, with started and completed timestamps, out of the ownership set,
\* and with tablet_failure set exactly when its tablet is not this one.
C10_StaleIsTerminated ==
    [][\A u \in UUIDs :
          (/\ tickPc = "reviewStaleMigrations" /\ isOpen = 1 /\ u \in StaleRows
           /\ ReviewStaleMigrations)
          => /\ vrepl'[u] # "running"
             /\ migrations'[u].migration_status = "failed"
             /\ migrations'[u].started_timestamp
             /\ migrations'[u].completed_timestamp
             /\ u \notin ownedRunningMigrations'
             /\ migrations'[u].tablet_failure = (migrations[u].tablet # SelfTablet)]_vars

\* C10, amended: the stale review takes every such row out of the ownership
\* set and sets tablet_failure when the row's tablet is not this one; when the
\* tablet lookup fails the row stays running for a later tick, otherwise it is
\* failed with started and completed timestamps, and its stream is stopped
\* unless the request to stop it failed.
C10_StaleReview ==
    [][\A rpcs \in [StaleRows -> RpcOutcomes] : \A u \in StaleRows :
          (/\ tickPc = "reviewStaleMigrations" /\ isOpen = 1
           /\ ReviewStaleMigrationsWith(rpcs))
          => /\ u \notin ownedRunningMigrations'
             /\ migrations'[u].tablet_failure =
                    (migrations[u].tablet_failure \/ migrations[u].tablet # SelfTablet)
             /\ IF rpcs[u] = "topo_fails"
                THEN /\ migrations'[u].migration_status = "running"
                     /\ migrations'[u].completed_timestamp = migrations[u].completed_timestamp
                     /\ vrepl'[u] = vrepl[u]
                ELSE /\ migrations'[u].migration_status = "failed"
                     /\ migrations'[u].started_timestamp
                     /\ migrations'[u].completed_timestamp
                     /\ rpcs[u] = "ok" => vrepl'[u] # "running"
                     /\ rpcs[u] = "stop_fails" => vrepl'[u] = vrepl[u]]_vars

\* C10 witness: the stale review failed a row that another tablet had run.
C10_Witness ==
    /\ lastCall.op = "reviewStaleMigrations"
    /\ \E u \in Stored :
          /\ <<"running", "failed">> \in lastCall.edges
          /\ migrations[u].migration_status = "failed"
          /\ migrations[u].tablet_failure
          /\ migrations[u].completed_timestamp
          /\ vrepl[u] = "stopped"

\* The operations of the API that go through the executor's own check, and
\* those that go to the throttler.
ExecutorOps ==
    {"SubmitMigration", "CancelMigration", "CancelPendingMigrations", "RetryMigration",
     "CleanupMigration", "CleanupAllMigrations", "CompleteMigration",
     "CompletePendingMigrations", "PostponeCompleteMigration",
     "PostponeCompletePendingMigrations", "LaunchMigration", "LaunchMigrations",
     "ForceCutOverMigration", "ForceCutOverPendingMigrations",
     "SetMigrationCutOverThreshold"}

ThrottlerOps ==
    {"ThrottleMigration", "ThrottleAllMigrations", "UnthrottleMigration",
     "UnthrottleAllMigrations"}

ExpectedThreshold(d) ==
    IF d = 0 THEN [threshold |-> 10 * Second, err |-> "OK"]
    ELSE IF d < 5 * Second \/ d > 30 * Second
         THEN [threshold |-> 10 * Second, err |-> "FAILED_PRECONDITION"]
         ELSE [threshold |-> d, err |-> "OK"]

\* C9: safeMigrationCutOverThreshold returns 10s for 0, the duration itself
\* between 5s and 30s, and FAILED_PRECONDITION below 5s or above 30s; a
\* SubmitMigration of a new UUID and a SetMigrationCutOverThreshold store the
\* whole seconds of what it returns or, when it fails, are rejected with
\* FAILED_PRECONDITION and store nothing; so every stored cut-over threshold
\* is between 5 and 30 seconds.
C9_CutOverThreshold ==
    [][/\ \A d \in Durations :
            /\ safeMigrationCutOverThreshold(d).err = ExpectedThreshold(d).err
            /\ ExpectedThreshold(d).err = "OK" =>
                   safeMigrationCutOverThreshold(d).threshold = ExpectedThreshold(d).threshold
       /\ \A u \in DOMAIN migrations' : migrations'[u].cutover_threshold_seconds \in 5..30
       /\ \A u \in ThresholdUUIDs, d \in Durations :
            (SetMigrationCutOverThreshold(u, d) /\ isOpen = 1 /\ u \in Stored)
            => IF ExpectedThreshold(d).err = "OK"
               THEN /\ lastCall'.code = "OK"
                    /\ migrations'[u].cutover_threshold_seconds =
                           ExpectedThreshold(d).threshold \div Second
               ELSE /\ lastCall'.code = "FAILED_PRECONDITION"
                    /\ UNCHANGED migrations
       /\ \A s \in ThresholdSubmissions :
            (SubmitMigration(s) /\ isOpen = 1 /\ s.uuid \notin Stored)
            => IF ExpectedThreshold(s.threshold).err = "OK"
               THEN /\ lastCall'.code = "OK"
                    /\ migrations'[s.uuid].cutover_threshold_seconds =
                           ExpectedThreshold(s.threshold).threshold \div Second
               ELSE /\ lastCall'.code = "FAILED_PRECONDITION"
                    /\ UNCHANGED migrations]_vars

\* C9 witness: a migration submitted with the default was set to the upper
\* limit, and a threshold above it was then rejected.
C9_Witness ==
    /\ lastCall.op = "SetMigrationCutOverThreshold"
    /\ lastCall.code = "FAILED_PRECONDITION"
    /\ isOpen = 1
    /\ \E u \in Stored : migrations[u].cutover_threshold_seconds = 30

ListedArtifacts == UNION {migrations[u].artifacts : u \in Stored}

\* The tables the executor drops by design: the sentry table of a cut-over,
\* and a table of the GC namespace that a DROP migration names.
DroppedByDesign(a) ==
    \/ a \in {SentryTable(u) : u \in UUIDs}
    \/ \E u \in Stored : GetAction(migrations[u]) = "drop" /\ migrations[u].mysql_table = a

\* C12 as stated: the executor never drops outright a table that was recorded
\* in artifacts.
C12_ArtifactNeverDropped == tables.dropped \cap tables.recorded = {}

\* C12, amended: but for the sentry table of a cut-over, which its cut-over
\* drops, and a GC-named table that a DROP migration names, a table recorded in
\* artifacts is never dropped outright; and unless its name is of the GC
\* namespace already (the table a DROP has renamed its table to), while it
\* exists it is listed in the artifacts of a row: it leaves the artifacts only
\* when gcArtifacts has renamed it into the GC namespace or when it is no
\* table any more.
C12_OnlySentryDropped ==
    \A a \in tables.recorded :
        ~DroppedByDesign(a)
            => /\ a \notin tables.dropped
               /\ ~IsGCTableName(a)
                    => /\ tables.at[a] # NoTable => a \in ListedArtifacts
                       /\ a \notin ListedArtifacts
                            => a \in tables.gc \/ tables.at[a] = NoTable

\* A cut-over dropped its sentry table and took it off the artifacts, and
\* gcArtifacts renamed the shadow table away.
C12_Witness ==
    /\ SentryTable("u1") \in tables.dropped
    /\ SentryTable("u1") \notin ListedArtifacts
    /\ VreplTable("u1") \in tables.gc
    /\ ListedArtifacts = {}

(* ------------------------------------------------------------------- C13 *)
\* The handler of a CREATE or DROP ran for u in this step.
IsHandlerOf(u) ==
    /\ handlers[u] > 0
    /\ lastCall'.op = "executeCreateDropDDLActionMigration"
    /\ lastCall'.uuid = u

\* u is a ready REVERT of a complete CREATE TABLE IF NOT EXISTS that found its
\* table and whose row has not been cleaned up.
RevertsNoopCreate(u) ==
    /\ u \in Stored
    /\ IsRevert(migrations[u])
    /\ Status(u) = "ready"
    /\ migrations[u].reverted_uuid \in Stored
    /\ LET r == migrations[migrations[u].reverted_uuid]
       IN /\ r.statement = "create_if_not_exists"
          /\ r.migration_status = "complete"
          /\ r.artifacts = {}
          /\ ~r.cleanup_timestamp

\* C13: when the handler of a CREATE TABLE IF NOT EXISTS runs and the table
\* exists, the row ends complete (failed or cancelled when the backend fails
\* the statement)
\* with no artifacts and the tables are as they were; and when the runner then
\* executes a REVERT of that migration, the REVERT ends and the tables are as
\* they were: the table exists with the contents it had, nothing was renamed
\* and no artifact was recorded.
C13_CreateIfNotExistsIsNoop ==
    [][/\ \A u \in UUIDs :
            ( /\ IsHandlerOf(u)
              /\ u \in Stored
              /\ migrations[u].statement = "create_if_not_exists"
              /\ tables.at[migrations[u].mysql_table] # NoTable )
            => /\ migrations'[u].migration_status \in TerminalStatuses
               /\ migrations'[u].artifacts = {}
               /\ tables'.at = tables.at
               /\ tables'.gc = tables.gc /\ tables'.dropped = tables.dropped
       /\ \A u \in UUIDs :
            ( /\ RevertsNoopCreate(u)
              /\ tickPc = "runNextMigration"
              /\ migrations'[u].migration_status # "ready" )
            => /\ migrations'[u].migration_status = "complete"
               /\ migrations'[u].artifacts = migrations[u].artifacts
               /\ tables' = tables
               /\ tables.at[migrations[migrations[u].reverted_uuid].mysql_table] # NoTable
      ]_vars

\* The REVERT of a CREATE TABLE IF NOT EXISTS that found its table has
\* completed, and the table is there with its contents.
C13_Witness ==
    /\ lastCall.op = "runNextMigration"
    /\ "u2" \in Stored /\ "u1" \in Stored
    /\ IsRevert(migrations["u2"]) /\ Status("u2") = "complete"
    /\ migrations["u1"].statement = "create_if_not_exists"
    /\ Status("u1") = "complete"
    /\ migrations["u1"].artifacts = {} /\ migrations["u2"].artifacts = {}
    /\ ~migrations["u1"].cleanup_timestamp
    /\ tables.at["t1"] = "original"
    /\ tables.recorded = {HoldTable("u1")}

Range(seq) == {seq[i] : i \in 1..Len(seq)}

\* cutOverVReplMigration has just returned an error.
CutOverFailed ==
    /\ lastCall.op = "reviewRunningMigrations"
    /\ cutOver.pc = "done"
    /\ cutOver.err

\* C15 as stated: when a cut-over has failed at any step, then on return the
\* tables are unlocked, buffering is off, the workflow runs, and the rename
\* connection was killed if the RENAME had not completed.
C15_FailedCutOverRestores ==
    CutOverFailed
        => /\ ~cutOver.locked
           /\ ~cutOver.buffering
           /\ vrepl[cutOver.uuid] = "running"
           /\ cutOver.rename # "blocked"

\* C15, amended: when a cut-over has failed at any step, then on return
\* buffering is off; the tables are unlocked unless the deferred UNLOCK TABLES
\* failed; the RENAME, if it was issued and still waited for the lock, was
\* killed unless the kill failed, and then it waits on only if the deferred
\* UNLOCK TABLES failed as well; and the workflow runs, unless it had been
\* stopped and the deferred restart failed, or the request to stop it failed
\* after it had stopped the workflow (no restart is deferred before that
\* request succeeds).
C15_FailedCutOverDefers ==
    CutOverFailed
        => /\ ~cutOver.buffering
           /\ cutOver.locked <=> ("lockTables" \in Range(cutOver.steps)
                                    /\ "unlockTables" \notin Range(cutOver.steps)
                                    /\ "unlock" \in cutOver.co.fails)
           /\ cutOver.rename = "killed"
                 <=> /\ "rename" \in Range(cutOver.steps) \/ cutOver.co.failAt = "rename"
                     /\ "unlockTables" \notin Range(cutOver.steps)
                     /\ "kill" \notin cutOver.co.fails
           /\ cutOver.rename = "blocked"
                 <=> /\ "rename" \in Range(cutOver.steps) \/ cutOver.co.failAt = "rename"
                     /\ "unlockTables" \notin Range(cutOver.steps)
                     /\ {"kill", "unlock"} \subseteq cutOver.co.fails
           /\ vrepl[cutOver.uuid] # "running"
                 <=> \/ "stopVReplication" \in Range(cutOver.steps)
                        /\ "restart" \in cutOver.co.fails
                     \/ cutOver.co.failAt = "stopVReplication" /\ cutOver.co.lost

\* A cut-over failed after the workflow was stopped, and everything was put
\* back: the workflow runs, the RENAME was killed, nothing is locked.
C15_Witness ==
    /\ CutOverFailed
    /\ "stopVReplication" \in Range(cutOver.steps)
    /\ vrepl[cutOver.uuid] = "running"
    /\ cutOver.rename = "killed"
    /\ ~cutOver.locked /\ ~cutOver.buffering

(* ------------------------------------------------------------------- C20 *)
\* The steps that C20 names, in the order in which it names them.
CutOverOrder ==
    <<"createSentry", "waitForPostSentryPos", "lockTables", "rename", "waitForPostLockPos",
      "stopVReplication", "dropSentry", "unlockTables", "awaitRename">>

IsOrdered(step) == step \in Range(CutOverOrder)

\* C20: a cut-over that succeeds has made the steps create sentry, wait for the
\* post-sentry position, LOCK TABLES, RENAME issued and seen blocked, wait for
\* the post-lock position, stop the workflow, drop the sentry table, UNLOCK
\* TABLES, receive the result of the RENAME, each once and in this order; and
\* a cut-over that fails has made a prefix of them.
C20_CutOverOrder ==
    (lastCall.op = "reviewRunningMigrations" /\ cutOver.pc = "done")
        => LET made == SelectSeq(cutOver.steps, IsOrdered)
           IN /\ Len(made) <= Len(CutOverOrder)
              /\ made = SubSeq(CutOverOrder, 1, Len(made))
              /\ ~cutOver.err => made = CutOverOrder

\* A cut-over has succeeded: the tables are swapped and the row is complete.
C20_Witness ==
    /\ lastCall.op = "reviewRunningMigrations"
    /\ cutOver.pc = "done" /\ ~cutOver.err
    /\ cutOver.renameWasSuccessful
    /\ Status(cutOver.uuid) = "complete"
    /\ tables.at["t1"] = VreplTable(cutOver.uuid)
    /\ tables.at[VreplTable(cutOver.uuid)] = "original"

(* ----------------------------------------------------------------- C16 *)
IsStoredRevert(u) == u \in Stored /\ IsRevert(migrations[u])

\* The place of row u in the order of completed_timestamp; 0 when it has none.
CompletedAt(u) ==
    IF \E i \in 1..Len(completions) : completions[i] = u
    THEN CHOOSE i \in 1..Len(completions) : completions[i] = u
    ELSE 0

\* The target of the REVERT u exists, is complete, was run by a supported
\* strategy, no other pending migration is on its table, and no complete
\* migration of its table completed after it.
IsRevertible(u) ==
    LET r == migrations[u].reverted_uuid
    IN /\ r \in Stored
       /\ Status(r) = "complete"
       /\ GetAction(migrations[r]) = "alter" => migrations[r].strategy \in {"online", "vitess"}
       /\ \A p \in Stored \ {u} :
             IsPending(p) => migrations[p].mysql_table # migrations[r].mysql_table
       /\ \A c \in Stored :
             Status(c) = "complete" /\ migrations[c].mysql_table = migrations[r].mysql_table
                 => CompletedAt(c) <= CompletedAt(r)

\* A complete migration of the same context carries the statement of u.
IsDuplicate(u) ==
    \E c \in Stored \ {u} :
        /\ Status(c) = "complete"
        /\ migrations[c].migration_context = migrations[u].migration_context
        /\ migrations[c].statement = migrations[u].statement
        /\ migrations[c].reverted_uuid = migrations[u].reverted_uuid

\* The runner takes the ready REVERT u.
RunsRevert(u) ==
    /\ lastCall'.op = "runNextMigration"
    /\ IsStoredRevert(u)
    /\ Status(u) = "ready"
    /\ migrations'[u].migration_status # "ready"

NoTableNoWorkflow == tables' = tables /\ vrepl' = vrepl

Executing == ownedRunningMigrations \cup {u \in UUIDs : handlers[u] > 0}

TickEntered ==
    /\ lastCall'.op = "onMigrationCheckTick"
    /\ lastCall'.code # "REENTRANCE"

\* C18: a call of onMigrationCheckTick enters the body only when no execution
\* of the body is in progress and none is cooling down; while the body runs
\* and while its cool-down lasts the re-entrance flag is 1; and the flag goes
\* back to 0 only by the function of the cool-down, after the body returned.
C18_TickNonReentrant ==
    [][/\ TickEntered => tickPc = "idle" /\ tickReentranceFlag = 0 /\ ~coolDown
       /\ tickPc' # "idle" => tickReentranceFlag' = 1 /\ ~coolDown'
       /\ coolDown' => tickReentranceFlag' = 1
       /\ tickReentranceFlag = 1 /\ tickReentranceFlag' = 0
           => coolDown /\ tickPc = "idle" /\ lastCall'.op = "AfterFunc"]_vars

\* C18 witness: with a migration running, a call of onMigrationCheckTick was
\* turned away while the last execution cools down.
C18_Witness ==
    /\ lastCall.op = "onMigrationCheckTick"
    /\ lastCall.code = "REENTRANCE"
    /\ tickPc = "idle"
    /\ coolDown
    /\ tickReentranceFlag = 1
    /\ \E u \in Stored : Status(u) = "running"

(* ----------------------------------------------------------------- C19 *)
\* The last operation ran a cut-over.
CutOverRan == cutOver.pc # "idle"

\* C19 as stated: an operation that writes rows holds migrationMutex while it
\* does, unless it runs a cut-over, which holds it not.
C19_MutexButForCutOver ==
    \A held \in writtenUnder : migrationMutex \in held <=> ~CutOverRan

\* C19, amended: an operation that writes rows holds migrationMutex while it
\* does, the review that runs a cut-over included; but the INSERT of
\* SubmitMigration is made under submitMutex alone.
C19_MutexButForInsert ==
    [][\A held \in writtenUnder' :
          IF lastCall'.op = "SubmitMigration" /\ DOMAIN migrations' # DOMAIN migrations
          THEN held = {submitMutex}
          ELSE migrationMutex \in held]_vars

\* C19 witness: a cut-over has completed its migration, under migrationMutex.
C19_Witness ==
    /\ lastCall.op = "reviewRunningMigrations"
    /\ CutOverRan /\ cutOver.pc = "done" /\ ~cutOver.err
    /\ Status(cutOver.uuid) = "complete"
    /\ <<"running", "complete">> \in lastCall.edges
    /\ writtenUnder = {{migrationMutex}}

(* ----------------------------------------------------------------- C21 *)
\* A step in which reviewRunningMigrations has run a cut-over to its return.
CutOverReturns == lastCall'.op = "reviewRunningMigrations" /\ cutOver'.pc = "done"

\* The step has changed what the name of the migration's table, or the name of
\* its shadow table, refers to.
TablesSwapped ==
    LET u == cutOver'.uuid
    IN \/ tables'.at[migrations[u].mysql_table] # tables.at[migrations[u].mysql_table]
       \/ tables'.at[getVreplTable(Begin, u)] # tables.at[getVreplTable(Begin, u)]

\* C21: a cut-over swaps the tables only after it has waited for the post-lock
\* position and stopped the workflow, and a cut-over that returns an error
\* leaves the table's name on the original table and the shadow table where it
\* was, whichever step failed and whichever deferred call failed.
C21_SwapOnlyOnSuccess ==
    [][CutOverReturns
         => /\ TablesSwapped
                 => {"waitForPostLockPos", "stopVReplication"}
                        \subseteq Range(cutOver'.steps)
            /\ cutOver'.err => ~TablesSwapped]_vars

(* ----------------------------------------------------------------- C22 *)
\* The rows the conflict rule is asked about: two tables, a CREATE, an ALTER
\* and a REVERT, under vreplication or not, with the allow-concurrent flag and
\* without, ready to complete at some time or never.
ConflictRows ==
    {[NewRow(OnlineDDL("", "c1", table, statement, strategy, options, 0, ""), 1, 0)
         EXCEPT !.was_ready_to_complete = ready] :
        table \in {"t1", "t2"}, statement \in {"create", "alter", "revert"},
        strategy \in {"vitess", "mysql"},
        options \in {{}, {"allow-concurrent"}}, ready \in BOOLEAN}

\* The candidates: rows that are ready to run and have not run yet.
CandidateRows == {row \in ConflictRows : ~row.was_ready_to_complete}

\* The runner asks whether a ready candidate conflicts with a running
\* migration; the answer is kept with the two rows.
ProposedMigrationConflictsWithRunningMigration(running, proposed) ==
    /\ lastCall' = [op |-> "proposedMigrationConflictsWithRunningMigration", uuid |-> "",
                    code |-> IF proposedMigrationConflictsWithRunningMigration(running,
                                                                               proposed)
                             THEN "CONFLICT" ELSE "OK",
                    rows |-> 0, edges |-> {}, running |-> running, proposed |-> proposed]
    /\ writtenUnder' = {}
    /\ UNCHANGED <<migrations, ownedRunningMigrations, ownedObjects, threads, isOpen, EnableOnlineDDL, keyspace,
                   reviewedRunningMigrationsFlag, vrepl, throttledApps, throttlerOpen,
                   handlers, tickPc, postponedAtTick, cancellable, submitting, fixCompletedTimestampDone,
                   tables, cutOver, completions, tickReentranceFlag, coolDown>>

NextConflict ==
    \E running \in ConflictRows, proposed \in CandidateRows :
        ProposedMigrationConflictsWithRunningMigration(running, proposed)

SpecConflict == InitServing /\ [][NextConflict]_vars

\* C22: for every running migration R and every ready candidate C, the runner
\* treats C as conflicting with R exactly when they have the same table, or
\* neither is allowed to run concurrently, or C is an ALTER and R has never
\* been ready to complete; so also when C is an ALTER without allow-concurrent
\* and R carries it.
C22_ConflictRule ==
    lastCall.op = "proposedMigrationConflictsWithRunningMigration"
        => LET R == lastCall.running
               C == lastCall.proposed
           IN lastCall.code = "CONFLICT"
                 <=> \/ R.mysql_table = C.mysql_table
                     \/ ~allowConcurrentMigration(R) /\ ~allowConcurrentMigration(C)
                     \/ GetAction(C) = "alter" /\ ~R.was_ready_to_complete

(* ----------------------------------------------------------------- C23 *)
\* Three migrations wait together: u1 is an ALTER or a CREATE of t1, postponed
\* at launch, postponed at completion, or not at all; u2 is an ALTER of t2,
\* postponed at launch or not; u3 is a CREATE of t1, postponed at completion
\* (an immediate operation that the scheduler leaves queued) or not.
ScheduleSubmissions ==
    {OnlineDDL("u1", "c1", "t1", statement, "vitess", options, 0, "") :
        statement \in {"alter", "create"},
        options \in {{}, {"postpone-launch"}, {"postpone-completion"}}}
    \cup
    {OnlineDDL("u2", "c1", "t2", "alter", "vitess", options, 0, "") :
        options \in {{}, {"postpone-launch"}}}
    \cup
    {OnlineDDL("u3", "c1", "t1", "create", "vitess", options, 0, "") :
        options \in {{}, {"postpone-completion"}}}

NextSchedule ==
    \/ Open
    \/ \E d \in ScheduleSubmissions :
          /\ Stored = SubmittedBefore(d.uuid)
          /\ SubmitMigration(d)
    \/ TickUpTo(RevertCutOverOutcomes, OneAttempt)
    \/ \E u \in UUIDs : ExecuteCreateDropDDLActionMigration(u)

SpecSchedule == Init /\ [][NextSchedule]_vars

\* The rows that the step has taken from queued to ready.
Promoted ==
    {u \in Stored : Status(u) = "queued" /\ migrations'[u].migration_status = "ready"}

\* A queued row that the scheduler may promote.
IsSchedulable(u) ==
    /\ Status(u) = "queued"
    /\ migrations[u].reviewed_timestamp
    /\ ~migrations[u].postpone_launch
    /\ ~(migrations[u].is_immediate_operation /\ migrations[u].postpone_completion)

\* C23: one execution of the scheduler takes at most one migration from queued
\* to ready, however many queued, reviewed, non-postponed migrations there
\* are, and never a row with postpone_launch nor an immediate row with
\* postpone_completion.
C23_SchedulesOne ==
    [][lastCall'.op = "scheduleNextMigration"
         => /\ Cardinality(Promoted) <= 1
            /\ \A u \in Promoted : IsSchedulable(u)]_vars

\* The scheduler has promoted one row and left queued another that it could
\* have promoted, and a postponed one.
C23_Witness ==
    /\ lastCall.op = "scheduleNextMigration"
    /\ lastCall.edges = {<<"queued", "ready">>}
    /\ \E u, v \in Stored :
          /\ u # v
          /\ IsSchedulable(u)
          /\ Status(v) = "queued"
          /\ migrations[v].postpone_launch
                \/ (migrations[v].is_immediate_operation /\ migrations[v].postpone_completion)

(* ----------------------------------------------------------------- C24 *)
\* u1 is an ALTER of t1 that allows concurrency.  u2 creates t1, the table of
\* u1, or alters t2 without allow-concurrent; u3 creates t2.
RunnerSubmissions ==
    {OnlineDDL("u1", "c1", "t1", "alter", "vitess", {"allow-concurrent"}, 0, ""),
     OnlineDDL("u2", "c1", "t1", "create", "vitess", {"allow-concurrent"}, 0, ""),
     OnlineDDL("u2", "c1", "t2", "alter", "vitess", {}, 0, ""),
     OnlineDDL("u3", "c1", "t2", "create", "vitess", {"allow-concurrent"}, 0, "")}

\* The tick with a flag max-concurrent-online-ddl of RunnerMaxConcurrent.
NextRunner ==
    \/ Open
    \/ \E d \in RunnerSubmissions :
          /\ Stored = SubmittedBefore(d.uuid)
          /\ SubmitMigration(d)
    \/ TickStart
    \/ CoolDownExpires
    \/ RetryTabletFailureMigrations
    \/ ReviewQueuedMigrations
    \/ ScheduleNextMigration
    \/ RunNextMigrationWith(RunnerMaxConcurrent, RunnerMaxHandlers)
    \/ ReviewRunningMigrationsWith(RevertCutOverOutcomes)
    \/ CancelMigrations
    \/ MonitorStaleMigrations
    \/ ReviewStaleMigrations
    \/ GcArtifacts
    \/ \E u \in UUIDs : ExecuteCreateDropDDLActionMigration(u)

SpecRunner == Init /\ [][NextRunner]_vars

\* The rows the step has taken out of ready, and those it has started a
\* goroutine for.
LeftReady ==
    {u \in Stored : Status(u) = "ready" /\ migrations'[u].migration_status # "ready"}
        \cup {u \in UUIDs : handlers'[u] > handlers[u]}

\* The migrations the step has handed to a handler: a goroutine was started,
\* a stream or a table was made, or the row came to run or to complete.
Dispatched ==
    {u \in LeftReady : \/ handlers'[u] > handlers[u]
                       \/ vrepl'[u] # vrepl[u]
                       \/ migrations'[u].migration_status \in {"running", "complete"}}

C25_DispatchedOncePerPromotion ==
    [][\A u \in UUIDs :
          (lastCall'.op = "runNextMigration" /\ handlers'[u] > handlers[u])
              => handlers[u] = 0]_vars

(* ----------------------------------------------------------------- C26 *)
\* C26: when the row of a migration submitted with singleton is inserted, no
\* other migration is pending, whatever ran between the singleton check and
\* the INSERT.
C26_SingletonInsertedAlone ==
    [][\A u \in UUIDs :
          (/\ lastCall'.op = "SubmitMigration"
           /\ u \notin Stored /\ u \in DOMAIN migrations'
           /\ HasFlag(migrations'[u].options, "singleton"))
              => sqlSelectPendingMigrations = {}]_vars

(* ----------------------------------------------------------------- C27 *)
\* u1 is an ALTER of t1, held back at launch or not.  u2 comes later with
\* in-order-completion: a CREATE, an ALTER under vreplication or an ALTER of
\* strategy mysql, on t2.
InOrderSubmissions ==
    {OnlineDDL("u1", "c1", "t1", "alter", "vitess", options, 0, "") :
        options \in {{}, {"postpone-launch"}}}
    \cup {OnlineDDL("u2", "c2", "t2", place[1], place[2], {"in-order-completion"}, 0, "") :
             place \in {<<"create", "vitess">>, <<"alter", "vitess">>, <<"alter", "mysql">>}}

NextInOrder ==
    \/ Open
    \/ \E d \in InOrderSubmissions :
          /\ Stored = SubmittedBefore(d.uuid)
          /\ SubmitMigration(d)
    \/ LaunchMigration("u1")
    \/ TickWith(RevertCutOverOutcomes)
    \/ \E u \in UUIDs : ExecuteCreateDropDDLActionMigration(u)

\* The database has t1, and t2 or not.
InitInOrder == \E live \in {{"t1"}, {"t1", "t2"}} : InitWith(live)

SpecInOrder == InitInOrder /\ [][NextInOrder]_vars

\* The migrations that are pending and were submitted before u.
EarlierPending(u) ==
    {p \in Stored : IsPending(p) /\ migrations[p].id < migrations[u].id}

\* C27 as stated: a migration with in-order-completion does not complete while
\* a migration submitted before it is pending.
C27_InOrderCompletion ==
    [][\A u \in Stored :
          (/\ HasFlag(migrations[u].options, "in-order-completion")
           /\ Status(u) # "complete"
           /\ migrations'[u].migration_status = "complete")
              => EarlierPending(u) = {}]_vars

\* C27, amended: the runner dispatches an immediate migration with
\* in-order-completion, and the review of the running migrations cuts over a
\* migration with in-order-completion, only when no migration submitted before
\* it is pending.
C27_InOrderAtHead ==
    [][/\ lastCall'.op = "runNextMigration"
           => \A u \in Dispatched :
                 (/\ HasFlag(migrations[u].options, "in-order-completion")
                  /\ migrations[u].is_immediate_operation)
                     => EarlierPending(u) = {}
       /\ (lastCall'.op = "reviewRunningMigrations" /\ cutOver'.pc = "done")
           => (HasFlag(migrations[cutOver'.uuid].options, "in-order-completion")
                  => EarlierPending(cutOver'.uuid) = {})]_vars

\* A migration with in-order-completion is ready to complete and was not cut
\* over by the review, a migration submitted before it being pending.
C27_Witness ==
    /\ lastCall.op = "reviewRunningMigrations" /\ lastCall.code = "OK"
    /\ cutOver.pc = "idle"
    /\ \E u \in Stored :
          /\ HasFlag(migrations[u].options, "in-order-completion")
          /\ Status(u) = "running" /\ migrations[u].ready_to_complete
          /\ ~migrations[u].postpone_completion
          /\ EarlierPending(u) # {}

(* ----------------------------------------------------------------- C28 *)
\* u1 is an ALTER of t1 in the context c1.  u2 comes later in the same
\* context, a CREATE or an ALTER of t2, with in-order-completion or without.
ContextSubmissions ==
    {OnlineDDL("u1", "c1", "t1", "alter", "vitess", {}, 0, "")}
    \cup {OnlineDDL("u2", "c1", "t2", action, "vitess", options, 0, "") :
             action \in {"create", "alter"},
             options \in {{}, {"in-order-completion"}}}

NextContext ==
    \/ Open
    \/ \E d \in ContextSubmissions :
          /\ Stored = SubmittedBefore(d.uuid)
          /\ SubmitMigration(d)
    \/ CancelMigration("u1", TRUE)
    \/ TickWith(RevertCutOverOutcomes)
    \/ \E u \in UUIDs : ExecuteCreateDropDDLActionMigration(u)

SpecContext == InitInOrder /\ [][NextContext]_vars

\* The failed and cancelled migrations of the context of u submitted before u.
FailedBefore(u) ==
    {p \in Stored : /\ migrations[p].migration_context = migrations[u].migration_context
                    /\ Status(p) \in {"failed", "cancelled"}
                    /\ migrations[p].id < migrations[u].id}

\* The runner works (the executor is open, the running migrations were
\* reviewed), nothing is in the ownership set, and u is the first of the
\* ready rows with a failed or cancelled migration of its context before it:
\* the runner comes to u.
RunnerConsiders(u) ==
    /\ isOpen = 1 /\ reviewedRunningMigrationsFlag
    /\ ownedRunningMigrations = {}
    /\ Status(u) = "ready"
    /\ \A p \in Stored : Status(p) = "ready" => migrations[u].id <= migrations[p].id
    /\ FailedBefore(u) # {}

\* C28 as stated: the runner fails, and does not dispatch, every ready
\* candidate it considers that has a failed or cancelled migration of its
\* context before it, whatever the flags of the candidate.
C28_FailsAnyCandidate ==
    [][\A u \in Stored :
          (lastCall'.op = "runNextMigration" /\ RunnerConsiders(u))
              => /\ migrations'[u].migration_status = "failed"
                 /\ u \notin Dispatched]_vars

\* C28, amended: the runner fails a candidate it considers that has a failed
\* or cancelled migration of its context before it when the candidate carries
\* in-order-completion (and, being immediate, is the first of the pending
\* migrations); it then dispatches nothing and returns the error.  A candidate
\* without in-order-completion is handed to executeMigration.
C28_FailsInOrderCandidate ==
    [][\A u \in Stored :
          (lastCall'.op = "runNextMigration" /\ RunnerConsiders(u))
              => /\ (/\ HasFlag(migrations[u].options, "in-order-completion")
                     /\ migrations[u].is_immediate_operation => EarlierPending(u) = {})
                        => /\ migrations'[u].migration_status = "failed"
                           /\ Dispatched = {}
                           /\ lastCall'.code = "ERROR"
                 /\ ~HasFlag(migrations[u].options, "in-order-completion")
                        => /\ u \in LeftReady
                           /\ lastCall'.code = "OK"]_vars

\* The runner has failed a migration with in-order-completion, the migration
\* of its context before it being cancelled.
C28_Witness ==
    /\ lastCall.op = "runNextMigration" /\ lastCall.code = "ERROR"
    /\ \E u \in Stored :
          /\ HasFlag(migrations[u].options, "in-order-completion")
          /\ Status(u) = "failed"
          /\ FailedBefore(u) # {}
          /\ handlers[u] = 0 /\ vrepl[u] = "none"

(* ----------------------------------------------------------------- C29 *)
\* u1 is an ALTER of t1 under vreplication, submitted with
\* postpone-completion or without.
PostponeSubmissions ==
    {OnlineDDL("u1", "c1", "t1", "alter", "vitess", options, 0, "") :
        options \in {{}, {"postpone-completion"}}}

NextPostpone ==
    \/ Open
    \/ \E d \in PostponeSubmissions : SubmitMigration(d)
    \/ CompleteMigration("u1")
    \/ PostponeCompleteMigration("u1")
    \/ TickStartSeeing(PostponedRunning)
    \/ CoolDownExpires
    \/ RetryTabletFailureMigrations
    \/ ReviewQueuedMigrations
    \/ ScheduleNextMigration
    \/ RunNextMigration
    \/ ReviewRunningMigrationsWith(SomeCutOverOutcomes)
    \/ CancelMigrations
    \/ MonitorStaleMigrations
    \/ ReviewStaleMigrations
    \/ GcArtifacts

SpecPostpone == Init /\ [][NextPostpone]_vars

\* The step is a review of the running migrations that has attempted the
\* cut-over of u.
CutOverAttempted(u) ==
    /\ lastCall'.op = "reviewRunningMigrations"
    /\ cutOver'.pc # "idle" /\ cutOver'.uuid = u

\* C29 as stated: the review attempts the cut-over of a running migration only
\* when postpone_completion is clear in its row, and only in a tick that found
\* it clear when the tick began.
C29_CutOverInLaterTick ==
    [][\A u \in Stored :
          CutOverAttempted(u) => /\ ~migrations[u].postpone_completion
                                 /\ u \notin postponedAtTick]_vars

\* C29, amended: the review attempts the cut-over of a running migration only
\* when postpone_completion is clear in its row as the review begins.
C29_CutOverWhenCleared ==
    [][\A u \in Stored :
          CutOverAttempted(u) => ~migrations[u].postpone_completion]_vars

\* The review has attempted the cut-over of a migration that was submitted
\* with postpone-completion, the flag being cleared since.
C29_Witness ==
    /\ lastCall.op = "reviewRunningMigrations"
    /\ cutOver.pc # "idle" /\ cutOver.uuid \in Stored
    /\ HasFlag(migrations[cutOver.uuid].options, "postpone-completion")
    /\ ~migrations[cutOver.uuid].postpone_completion

(* ----------------------------------------------------------------- C30 *)
\* Durations are in milliseconds.
Millisecond == 1
Minute == 60 * Second

\* cutoverIntervals, a Go slice: its first element has the index 0.
cutoverIntervals == <<0, 1 * Minute, 5 * Minute, 10 * Minute, 30 * Minute>>

\* The most cut-over attempts a row has counted.
MaxCutoverAttempts == 6

\* A shouldCutOverAccordingToBackoff that forces the cut-over from the very
\* time force-cut-over-after on.
shouldCutOverAccordingToBackoff_ForcesAtEqual(shouldForceCutOverIndicator, forceCutOverAfter, sinceReadyToComplete, sinceLastCutoverAttempt, cutoverAttempts) ==
    IF shouldForceCutOverIndicator
    THEN [shouldCutOver |-> TRUE, shouldForceCutOver |-> TRUE, index |-> -1, panics |-> FALSE]
    ELSE IF /\ forceCutOverAfter > 0
            /\ \/ sinceReadyToComplete >= forceCutOverAfter
               \/ forceCutOverAfter <= Millisecond
    THEN [shouldCutOver |-> TRUE, shouldForceCutOver |-> TRUE, index |-> -1, panics |-> FALSE]
    ELSE LET index == IF cutoverAttempts < Len(cutoverIntervals)
                      THEN cutoverAttempts
                      ELSE Len(cutoverIntervals) - 1
         IN IF index \notin 0..(Len(cutoverIntervals) - 1)
            THEN [shouldCutOver |-> FALSE, shouldForceCutOver |-> FALSE,
                  index |-> index, panics |-> TRUE]
            ELSE [shouldCutOver |-> sinceLastCutoverAttempt >= cutoverIntervals[index + 1],
                  shouldForceCutOver |-> FALSE, index |-> index, panics |-> FALSE]

\* A shouldCutOverAccordingToBackoff that indexes cutoverIntervals by
\* cutoverAttempts as it is.
shouldCutOverAccordingToBackoff_NoClamp(shouldForceCutOverIndicator, forceCutOverAfter, sinceReadyToComplete, sinceLastCutoverAttempt, cutoverAttempts) ==
    IF shouldForceCutOverIndicator
    THEN [shouldCutOver |-> TRUE, shouldForceCutOver |-> TRUE, index |-> -1, panics |-> FALSE]
    ELSE IF /\ forceCutOverAfter > 0
            /\ \/ sinceReadyToComplete > forceCutOverAfter
               \/ forceCutOverAfter <= Millisecond
    THEN [shouldCutOver |-> TRUE, shouldForceCutOver |-> TRUE, index |-> -1, panics |-> FALSE]
    ELSE LET index == cutoverAttempts
         IN IF index \notin 0..(Len(cutoverIntervals) - 1)
            THEN [shouldCutOver |-> FALSE, shouldForceCutOver |-> FALSE,
                  index |-> index, panics |-> TRUE]
            ELSE [shouldCutOver |-> sinceLastCutoverAttempt >= cutoverIntervals[index + 1],
                  shouldForceCutOver |-> FALSE, index |-> index, panics |-> FALSE]

\* shouldCutOverAccordingToBackoff: what it returns, the index it reads
\* cutoverIntervals at (-1 when it reads none), and whether that index is out
\* of range, in which case the program panics.
shouldCutOverAccordingToBackoff(shouldForceCutOverIndicator, forceCutOverAfter, sinceReadyToComplete, sinceLastCutoverAttempt, cutoverAttempts) ==
    IF shouldForceCutOverIndicator
    THEN [shouldCutOver |-> TRUE, shouldForceCutOver |-> TRUE, index |-> -1, panics |-> FALSE]
    ELSE IF /\ forceCutOverAfter > 0
            /\ \/ sinceReadyToComplete > forceCutOverAfter
               \/ forceCutOverAfter <= Millisecond
    THEN [shouldCutOver |-> TRUE, shouldForceCutOver |-> TRUE, index |-> -1, panics |-> FALSE]
    ELSE LET index == IF cutoverAttempts < Len(cutoverIntervals)
                      THEN cutoverAttempts
                      ELSE Len(cutoverIntervals) - 1
         IN IF index \notin 0..(Len(cutoverIntervals) - 1)
            THEN [shouldCutOver |-> FALSE, shouldForceCutOver |-> FALSE,
                  index |-> index, panics |-> TRUE]
            ELSE [shouldCutOver |-> sinceLastCutoverAttempt >= cutoverIntervals[index + 1],
                  shouldForceCutOver |-> FALSE, index |-> index, panics |-> FALSE]

\* What reviewRunningMigrations reads of a row and of its strategy:
\* cutover_attempts counts up from 0, seconds_since_last_cutover_attempt is in
\* whole seconds, around the intervals.
BackoffInputs ==
    [shouldForceCutOver : BOOLEAN,
     forceCutOverAfter : {0, Millisecond, 2 * Second},
     sinceReadyToComplete : {Second, 2 * Second, 3 * Second},
     sinceLastCutoverAttempt :
         {n * Second : n \in {0, 59, 60, 299, 300, 599, 600, 1799, 1800, 1801}},
     cutoverAttempts : 0..MaxCutoverAttempts]

\* The review asks whether to cut over; the answer is kept with the inputs.
ShouldCutOverAccordingToBackoff(in) ==
    /\ lastCall' = [op |-> "shouldCutOverAccordingToBackoff", uuid |-> "", code |-> "OK",
                    rows |-> 0, edges |-> {}, in |-> in,
                    out |-> shouldCutOverAccordingToBackoff(in.shouldForceCutOver,
                                in.forceCutOverAfter, in.sinceReadyToComplete,
                                in.sinceLastCutoverAttempt, in.cutoverAttempts)]
    /\ writtenUnder' = {}
    /\ UNCHANGED <<migrations, ownedRunningMigrations, ownedObjects, threads, isOpen, EnableOnlineDDL, keyspace,
                   reviewedRunningMigrationsFlag, vrepl, throttledApps, throttlerOpen,
                   handlers, tickPc, postponedAtTick, cancellable, submitting, fixCompletedTimestampDone,
                   tables, cutOver, completions, tickReentranceFlag, coolDown>>

NextBackoff == \E in \in BackoffInputs : ShouldCutOverAccordingToBackoff(in)

SpecBackoff == InitServing /\ [][NextBackoff]_vars

\* No force condition applies to the inputs: the user has not forced the
\* cut-over, and force-cut-over-after is unset, or is above a millisecond and
\* not yet exceeded.
NoForceCondition(in) ==
    /\ ~in.shouldForceCutOver
    /\ \/ in.forceCutOverAfter = 0
       \/ /\ in.forceCutOverAfter > Millisecond
          /\ in.sinceReadyToComplete <= in.forceCutOverAfter

\* The interval required after the given number of attempts: 0, 1m, 5m, 10m,
\* and 30m from the fourth attempt on.
RequiredInterval(attempts) ==
    CASE attempts = 0 -> 0
      [] attempts = 1 -> 60000
      [] attempts = 2 -> 300000
      [] attempts = 3 -> 600000
      [] OTHER -> 1800000

\* C30: when no force condition applies, the cut-over is attempted, unforced,
\* exactly when the time since the last attempt is at least
\* I[min(cutover_attempts, 4)], I = (0, 1m, 5m, 10m, 30m): 30m for every
\* cutover_attempts >= 5; the index used is min(cutover_attempts, 4), never
\* out of range.
C30_BackoffInterval ==
    (lastCall.op = "shouldCutOverAccordingToBackoff" /\ NoForceCondition(lastCall.in))
        => /\ lastCall.out.shouldCutOver
                <=> lastCall.in.sinceLastCutoverAttempt
                        >= RequiredInterval(lastCall.in.cutoverAttempts)
           /\ ~lastCall.out.shouldForceCutOver
           /\ ~lastCall.out.panics
           /\ lastCall.out.index = IF lastCall.in.cutoverAttempts < 4
                                    THEN lastCall.in.cutoverAttempts ELSE 4

\* After five attempts and more, with no force condition, the cut-over was
\* refused a second short of 30 minutes.
C30_Witness ==
    /\ lastCall.op = "shouldCutOverAccordingToBackoff"
    /\ NoForceCondition(lastCall.in)
    /\ lastCall.in.cutoverAttempts >= 5
    /\ lastCall.in.sinceLastCutoverAttempt = 1799 * Second
    /\ ~lastCall.out.shouldCutOver

CutOverAttemptFailed(u) ==
    /\ CutOverAttempted(u)
    /\ cutOver'.pc = "done" /\ cutOver'.err
    /\ cutOver'.steps # <<>>

\* The workflow was stopped by the attempt and is not running on its return:
\* the deferred restart failed, or the call that stopped it answered an error.
LeftStopped(c) ==
    \/ "stopVReplication" \in Range(c.steps) /\ "restart" \in c.co.fails
    \/ c.co.failAt = "stopVReplication" /\ c.co.lost

\* C32 as stated: when a cut-over attempt fails after it was counted, the row
\* is still running, cutover_attempts is one more than before the attempt, and
\* the workflow is running, so that a later review can attempt the cut-over
\* again.
C32_FailedAttemptRetried ==
    [][\A u \in Stored :
          CutOverAttemptFailed(u)
              => /\ migrations'[u].migration_status = "running"
                 /\ migrations'[u].cutover_attempts = migrations[u].cutover_attempts + 1
                 /\ vrepl'[u] = "running"]_vars

\* C32, amended: when a cut-over attempt fails after it was counted, the row is
\* still running and cutover_attempts is one more than before the attempt; the
\* workflow is running unless the attempt has left it stopped; and a review
\* attempts the cut-over of a row only if that row is running, its workflow
\* is running and postpone_completion is clear.
C32_FailedAttemptCounted ==
    [][\A u \in Stored :
          /\ CutOverAttemptFailed(u)
                => /\ migrations'[u].migration_status = "running"
                   /\ migrations'[u].cutover_attempts = migrations[u].cutover_attempts + 1
                   /\ vrepl'[u] = "running" <=> ~LeftStopped(cutOver')
          /\ CutOverAttempted(u)
                => /\ migrations[u].migration_status = "running"
                   /\ vrepl[u] = "running"
                   /\ ~migrations[u].postpone_completion]_vars

\* A second attempt at the cut-over of u1 has failed as the first did, and
\* has left the row running with its workflow running.
C32_Witness ==
    /\ CutOverFailed
    /\ cutOver.uuid = "u1"
    /\ migrations["u1"].cutover_attempts = 2
    /\ migrations["u1"].migration_status = "running"
    /\ vrepl["u1"] = "running"

(* ------------------------------------------------------------------- C33 *)
\* u1 alters t1 and u2 alters t2, both under vreplication and allowed to run
\* concurrently; either stream can fail, and the cut-over of either can fail.
TerminalSubmissions ==
    {OnlineDDL("u1", "c1", "t1", "alter", "vitess", {"allow-concurrent"}, 0, ""),
     OnlineDDL("u2", "c1", "t2", "alter", "vitess", {"allow-concurrent"}, 0, "")}

NextTerminal ==
    \/ Open
    \/ \E d \in TerminalSubmissions :
          /\ Stored = SubmittedBefore(d.uuid)
          /\ SubmitMigration(d)
    \/ \E u \in {"u1", "u2"} : StreamFails(u)
    \/ TickStart
    \/ CoolDownExpires
    \/ RetryTabletFailureMigrations
    \/ ReviewQueuedMigrations
    \/ ScheduleNextMigration
    \/ RunNextMigrationWith(RunnerMaxConcurrent, MaxHandlers)
    \/ ReviewRunningMigrationsWith(SomeCutOverOutcomes)
    \/ CancelMigrations
    \/ MonitorStaleMigrations
    \/ ReviewStaleMigrations
    \/ GcArtifacts

SpecTerminal == InitWith({"t1", "t2"}) /\ [][NextTerminal]_vars

\* The step is the review of the running migrations by an open executor.
ReviewStep ==
    /\ tickPc = "reviewRunningMigrations" /\ tickPc' = "cancelMigrations"
    /\ isOpen = 1

\* The step is the tick's cancellation of what the review handed to it.
CancelStep ==
    /\ tickPc = "cancelMigrations" /\ tickPc' = "monitorStaleMigrations"
    /\ isOpen = 1

\* The review finds the stream of u1 in error: u1 is the first row of its
\* query, a running row whose stream is in the error state.
FindsTerminalError ==
    /\ ReviewStep
    /\ "u1" \in Stored
    /\ migrations["u1"].migration_status = "running"
    /\ vrepl["u1"] = "error"

\* C33 as stated: a running migration whose stream the review finds in error
\* is handed to the tick for cancellation, whatever the review of another
\* running migration returns, and what is handed to the tick is in a terminal
\* status when its cancellation has run.
C33_TerminalStreamCancelled ==
    [][/\ FindsTerminalError => "u1" \in cancellable'
       /\ CancelStep
             => \A u \in cancellable :
                   migrations'[u].migration_status \in {"failed", "cancelled", "complete"}]_vars

(* ------------------------------------------------------------------- C34 *)
\* The deferred calls of executeSpecialAlterDirectDDLActionMigration run when
\* it returns: toggleBuffering(false) is the only one that touches buffering.
RECURSIVE specialAlterReturn(_)
specialAlterReturn(b) ==
    IF b.defers = <<>> THEN b
    ELSE specialAlterReturn(
             IF Head(b.defers) = "toggleBuffering(false)"
             THEN toggleBuffering([b EXCEPT !.defers = Tail(@)], FALSE)
             ELSE [b EXCEPT !.defers = Tail(@)])

\* executeSpecialAlterDirectDDLActionMigration: in tells how its calls end.
executeSpecialAlterDirectDDLActionMigration(in) ==
    LET b0 == [buffering |-> FALSE, enabled |-> 0, disabled |-> 0, defers |-> <<>>,
               err |-> FALSE]
        fail(b) == specialAlterReturn([b EXCEPT !.err = TRUE])
    IN IF ~in.parses THEN fail(b0)
       ELSE LET b1 == [b0 EXCEPT !.defers = <<"bufferingContextCancel">> \o @]
                b2 == [b1 EXCEPT !.defers = <<"toggleBuffering(false)">> \o @]
                b3 == toggleBuffering(b2, TRUE)
            IN IF in.forceCutOverAfter > 0 /\ ~in.checkOnPreparedPool THEN fail(b3)
               ELSE IF in.forceCutOverAfter > 0 /\ ~in.killTableLockHoldersAndAccessors
               THEN fail(b3)
               ELSE IF ~in.executeDirectly THEN fail(b3)
               ELSE specialAlterReturn(b3)

\* How the calls of the special-plan ALTER can end: --force-cut-over-after
\* parses or not and is set or not, and each later call succeeds or fails.
\* A call that is not reached is given as succeeding.
SpecialAlterInputs ==
    {in \in [parses : BOOLEAN, forceCutOverAfter : {0, Second},
             checkOnPreparedPool : BOOLEAN, killTableLockHoldersAndAccessors : BOOLEAN,
             executeDirectly : BOOLEAN] :
        /\ ~in.parses => in.forceCutOverAfter = 0
        /\ in.forceCutOverAfter = 0
              => in.checkOnPreparedPool /\ in.killTableLockHoldersAndAccessors
        /\ ~in.checkOnPreparedPool => in.killTableLockHoldersAndAccessors
        /\ ~(in.parses /\ in.checkOnPreparedPool /\ in.killTableLockHoldersAndAccessors)
              => in.executeDirectly}

ExecuteSpecialAlterDirectDDLActionMigration(in) ==
    /\ lastCall' = [op |-> "executeSpecialAlterDirectDDLActionMigration", uuid |-> "",
                    code |-> "OK", rows |-> 0, edges |-> {}, in |-> in,
                    out |-> executeSpecialAlterDirectDDLActionMigration(in)]
    /\ writtenUnder' = {}
    /\ UNCHANGED <<migrations, ownedRunningMigrations, ownedObjects, threads, isOpen, EnableOnlineDDL, keyspace,
                   reviewedRunningMigrationsFlag, vrepl, throttledApps, throttlerOpen,
                   handlers, tickPc, postponedAtTick, cancellable, submitting, fixCompletedTimestampDone,
                   tables, cutOver, completions, tickReentranceFlag, coolDown>>

\* One ALTER under vreplication whose cut-over can fail at any step and in any
\* one of its deferred calls, and the special-plan ALTER called at any time.
NextBuffering ==
    \/ Open
    \/ \E d \in CutOverSubmissions : SubmitMigration(d)
    \/ TickUpTo(CutOverOutcomes, OneAttempt)
    \/ \E in \in SpecialAlterInputs : ExecuteSpecialAlterDirectDDLActionMigration(in)

SpecBuffering == Init /\ [][NextBuffering]_vars

\* C34: when cutOverVReplMigration has returned, with or without an error,
\* buffering is off and toggleBuffering(false) was called once if buffering had
\* been enabled and not at all if it had not; and the same holds when the
\* special-plan ALTER has returned.
C34_BufferingScoped ==
    /\ cutOver.pc = "done"
          => /\ ~cutOver.buffering
             /\ cutOver.enabled <= 1
             /\ cutOver.disabled = cutOver.enabled
             /\ cutOver.enabled = 1 <=> "toggleBuffering" \in Range(cutOver.steps)
    /\ lastCall.op = "executeSpecialAlterDirectDDLActionMigration"
          => /\ ~lastCall.out.buffering
             /\ lastCall.out.enabled <= 1
             /\ lastCall.out.disabled = lastCall.out.enabled
             /\ lastCall.out.enabled = 1 <=> lastCall.in.parses

\* A cut-over has succeeded: it has called reenableWritesOnce itself and again
\* as a deferred call, and buffering was disabled once.
C34_Witness ==
    /\ cutOver.pc = "done" /\ ~cutOver.err
    /\ cutOver.renameWasSuccessful
    /\ cutOver.enabled = 1 /\ cutOver.disabled = 1
    /\ ~cutOver.buffering

(* ------------------------------------------------------------------- C35 *)
\* The step is a call of onMigrationCheckTick that has taken the flag.
TickTakesFlag ==
    /\ lastCall'.op = "onMigrationCheckTick"
    /\ tickReentranceFlag = 0 /\ tickReentranceFlag' = 1

\* C35: the tick moves from phase to phase in the order of TickPhases, each
\* step being the run of the phase it leaves, whatever that phase returns, and
\* from the last phase to idle; it enters its first phase only on a PRIMARY
\* with a keyspace; and a tick on a tablet that is not PRIMARY or has no
\* keyspace enters no phase and leaves the rows, the ownership set, the streams,
\* the tables and what the phases keep between them as they were (it has taken
\* tickReentranceFlag before it looks at either).
C35_PhasesInOrder ==
    [][/\ tickPc' # tickPc
            => \/ /\ tickPc = "idle" /\ tickPc' = TickPhases[1]
                  /\ TickTakesFlag /\ lastCall'.code = "OK" /\ keyspace # ""
               \/ \E i \in 1..(Len(TickPhases) - 1) :
                     /\ tickPc = TickPhases[i] /\ tickPc' = TickPhases[i + 1]
                     /\ lastCall'.op = TickPhases[i]
               \/ /\ tickPc = TickPhases[Len(TickPhases)] /\ tickPc' = "idle"
                  /\ lastCall'.op = tickPc
       /\ lastCall'.op \in Range(TickPhases) => tickPc = lastCall'.op /\ tickPc' # tickPc
       /\ (TickTakesFlag /\ (lastCall'.code # "OK" \/ keyspace = ""))
            => /\ tickPc' = "idle"
               /\ UNCHANGED <<migrations, ownedRunningMigrations, vrepl, tables, completions,
                              cancellable, reviewedRunningMigrationsFlag, handlers, isOpen,
                              throttledApps, fixCompletedTimestampDone>>]_vars

\* The review of the running migrations has returned an error, and the tick is
\* at its next phase.
C35_Witness ==
    /\ lastCall.op = "reviewRunningMigrations" /\ lastCall.code = "ERROR"
    /\ tickPc = "cancelMigrations"
    /\ keyspace # ""

(* ------------------------------------------------------------------- C36 *)
\* The row of a migration this executor owns is written by someone else (an
\* operator, or a tablet that held the keyspace before): it is failed there,
\* and this executor is told nothing.
RowWrittenElsewhere(u) ==
    /\ u \in ownedRunningMigrations \cap Stored
    /\ migrations[u].migration_status = "running"
    /\ migrations' = [migrations EXCEPT ![u].migration_status = "failed"]
    /\ lastCall' = [op |-> "elsewhere", uuid |-> u, code |-> "OK", rows |-> 0,
                    edges |-> {}]
    /\ UNCHANGED <<tables, cutOver, completions, ownedRunningMigrations, ownedObjects, threads, isOpen,
                   EnableOnlineDDL, keyspace, tickReentranceFlag, coolDown,
                   reviewedRunningMigrationsFlag, vrepl, throttledApps, throttlerOpen,
                   handlers, tickPc, postponedAtTick, cancellable, submitting,
                   fixCompletedTimestampDone>>
    /\ writtenUnder' = {}

\* One ALTER under vreplication, cancelled and retried at will, whose row can
\* be written elsewhere while it runs.
NextOwnership ==
    \/ Open
    \/ \E d \in CutOverSubmissions : SubmitMigration(d)
    \/ \E issuedByUser \in BOOLEAN : CancelMigration("u1", issuedByUser)
    \/ RetryMigration("u1")
    \/ Tick
    \/ StreamFails("u1")
    \/ RowWrittenElsewhere("u1")

SpecOwnership == Init /\ [][NextOwnership]_vars

\* The step is a review of the running migrations that returns no error.
ReviewCompletes ==
    /\ ReviewStep
    /\ lastCall'.op = "reviewRunningMigrations" /\ lastCall'.code = "OK"

\* C36: when a review of the running migrations has returned without error,
\* every UUID of ownedRunningMigrations has a row that is queued, ready or
\* running; and a UUID that was in the set and whose row is queued, ready or
\* running after the review is still in it.
C36_OwnedArePending ==
    [][ReviewCompletes
          => /\ \A u \in ownedRunningMigrations' :
                   u \in Stored /\ migrations'[u].migration_status \in PendingStatuses
             /\ \A u \in ownedRunningMigrations \cap Stored :
                   migrations'[u].migration_status \in PendingStatuses
                       => u \in ownedRunningMigrations']_vars

\* A review has taken u1 out of the set: its row was failed elsewhere (it has
\* no completed_timestamp, which every terminal write of the executor sets).
C36_Witness ==
    /\ lastCall.op = "reviewRunningMigrations" /\ lastCall.code = "OK"
    /\ "u1" \in Stored
    /\ migrations["u1"].migration_status = "failed"
    /\ ~migrations["u1"].completed_timestamp
    /\ "u1" \notin ownedRunningMigrations
(* --------------------------------------- C37: was_ready_to_complete sticks *)
\* The conflict check reads the flags of the objects in ownedRunningMigrations
\* (Load). The running reviewer puts a new object there at every tick, read
\* from the row, and updateMigrationReadyToComplete then writes the row and
\* the flags of that object.

\* u is owned and running, before and after the step.
StaysOwned(u) ==
    /\ u \in ownedRunningMigrations /\ u \in ownedRunningMigrations'
    /\ Status(u) = "running" /\ migrations'[u].migration_status = "running"

\* C37: for every owned running migration, a WasReadyToComplete of 1 stays 1
\* as long as the migration is owned and running, whatever the reviewer finds
\* and although it stores a new object at every tick; the flags the conflict
\* check reads are those of the row, and ReadyToComplete is free to go back
\* to 0.
C37_WasReadySticks ==
    [][\A u \in UUIDs :
          /\ StaysOwned(u) /\ ownedObjects[u].WasReadyToComplete = 1
                => ownedObjects'[u].WasReadyToComplete = 1
          /\ u \in ownedRunningMigrations' /\ migrations'[u].migration_status = "running"
                => /\ ownedObjects'[u] = readMigrationFlags(migrations'[u])
                   /\ ownedObjects'[u].ReadyToComplete = 1
                         => ownedObjects'[u].WasReadyToComplete = 1]_vars

\* A review has found an owned migration, that was ready before, not ready:
\* ReadyToComplete is 0 and WasReadyToComplete is 1.
C37_Witness ==
    /\ lastCall.op = "reviewRunningMigrations" /\ lastCall.code = "OK"
    /\ \E u \in ownedRunningMigrations :
          /\ Status(u) = "running"
          /\ ownedObjects[u] = [WasReadyToComplete |-> 1, ReadyToComplete |-> 0]

(* ------------------------------------- C38: no dispatch before a review *)
\* The runner phase of the tick has written something: it failed a ready
\* migration or it dispatched one.
RunnerActed ==
    /\ lastCall'.op = "runNextMigration"
    /\ migrations' # migrations \/ handlers' # handlers

\* C38: the runner does nothing to any migration unless
\* reviewedRunningMigrationsFlag is set; the flag is only ever set by a
\* reviewRunningMigrations that returns no error; Open clears the flag and
\* empties the ownership set, so that after Close and Open, and in the tick
\* that follows Open, the runner waits for a review again.
C38_ReviewBeforeDispatch ==
    [][/\ RunnerActed => reviewedRunningMigrationsFlag
       /\ ~reviewedRunningMigrationsFlag /\ reviewedRunningMigrationsFlag'
             => lastCall'.op = "reviewRunningMigrations" /\ lastCall'.code = "OK"
       /\ lastCall'.op = "Open" /\ isOpen = 0
             => /\ ~reviewedRunningMigrationsFlag'
                /\ ownedRunningMigrations' = {}
       /\ lastCall.op = "Open" /\ lastCall'.op = "runNextMigration"
             => migrations' = migrations /\ handlers' = handlers]_vars

\* The executor was closed and opened again after the runner had started a
\* migration, and another migration is ready: the runner of the next tick
\* finds the flag cleared and leaves the ready migration alone.
C38_Witness ==
    /\ lastCall.op = "runNextMigration"
    /\ isOpen = 1 /\ ~reviewedRunningMigrationsFlag
    /\ \E u \in Stored : Status(u) = "ready"
    /\ \E u \in Stored : Status(u) = "running"

(* ------------------------------------------------- C39: the two mutexes *)
\* What a call does with e.submitMutex and e.migrationMutex, as the sequence of
\* its steps: Lock and Unlock of a mutex, a call that takes no lock (a query,
\* failMigration, the cut-over), and a go statement.
LockOf(x) == [k |-> "Lock", x |-> x]
UnlockOf(x) == [k |-> "Unlock", x |-> x]
Does(what) == [k |-> "call", x |-> what]
Go(op) == [k |-> "go", x |-> op]

\* A function that locks migrationMutex, defers the Unlock and calls body.
UnderMigrationMutex(body) ==
    <<LockOf("migrationMutex")>> \o body \o <<UnlockOf("migrationMutex")>>

\* CancelMigration: terminateMigration, and the deferred failMigration, which
\* runs before the deferred Unlock.
CancelMigrationSteps ==
    UnderMigrationMutex(<<Does("terminateMigration"), Does("failMigration")>>)

\* RetryMigration, and every other call of the API that locks migrationMutex
\* and runs its queries.
RetryMigrationSteps == UnderMigrationMutex(<<Does("execQuery")>>)

\* A submitCallbackIfNonConflicting that calls the callback before the
\* function that holds migrationMutex has returned.
submitCallbackIfNonConflicting_CallbackUnderLock(singleton, callback) ==
    IF ~singleton THEN callback
    ELSE UnderMigrationMutex(<<Does("sqlSelectPendingMigrations")>> \o callback)

\* submitCallbackIfNonConflicting: the check of the pending migrations is in
\* a function of its own, so that migrationMutex is released before callback.
submitCallbackIfNonConflicting(singleton, callback) ==
    IF ~singleton THEN callback
    ELSE UnderMigrationMutex(<<Does("sqlSelectPendingMigrations")>>) \o callback

\* SubmitMigration of a UUID that is stored (the callback is RetryMigration)
\* or new (the callback is the INSERT).
SubmitMigrationSteps(stored, singleton) ==
    <<LockOf("submitMutex"), Does("readMigration")>>
        \o submitCallbackIfNonConflicting(singleton,
               IF stored THEN RetryMigrationSteps ELSE <<Does("execQuery")>>)
        \o <<UnlockOf("submitMutex")>>

\* onMigrationCheckTick: its phases one after the other.  The runner starts
\* the goroutine of a CREATE or a DROP, the running reviewer cuts over and
\* starts CancelMigration in a goroutine when the cut-over fails on a name
\* that is too long; both go on without waiting.
TickSteps ==
    RetryMigrationSteps
        \o UnderMigrationMutex(<<Does("reviewQueuedMigration"), Does("failMigration")>>)
        \o UnderMigrationMutex(<<Does("scheduleNextMigration")>>)
        \o UnderMigrationMutex(<<Does("executeMigration"),
                                 Go("executeCreateDDLActionMigration")>>)
        \o UnderMigrationMutex(<<Does("cutOverVReplMigration"), Go("CancelMigration")>>)
        \o CancelMigrationSteps
        \o UnderMigrationMutex(<<Does("monitorStaleMigrations")>>)
        \o UnderMigrationMutex(<<Does("reviewStaleMigrations")>>)
        \o UnderMigrationMutex(<<Does("gcArtifacts")>>)

\* The calls of the API that are observed: a submission that takes neither
\* branch of submitCallbackIfNonConflicting's lock nor RetryMigration, one that
\* takes both, and a call that locks migrationMutex alone.
APICalls ==
    {"SubmitMigration new", "SubmitMigration stored singleton", "CancelMigration"}

Steps(op) ==
    CASE op = "SubmitMigration new" -> SubmitMigrationSteps(FALSE, FALSE)
      [] op = "SubmitMigration new singleton" -> SubmitMigrationSteps(FALSE, TRUE)
      [] op = "SubmitMigration stored" -> SubmitMigrationSteps(TRUE, FALSE)
      [] op = "SubmitMigration stored singleton" -> SubmitMigrationSteps(TRUE, TRUE)
      [] op = "CancelMigration" -> CancelMigrationSteps
      [] op = "RetryMigration" -> RetryMigrationSteps
      [] op = "executeCreateDDLActionMigration" ->
             UnderMigrationMutex(<<Does("execQuery"), Does("failMigration")>>)
      [] op = "onMigrationCheckTick" -> TickSteps
      [] OTHER -> <<>>

\* Thread t, and the threads once t has become th.
Thread(t) == IF t \in DOMAIN threads THEN threads[t] ELSE Idle
Becomes(t, th) ==
    [o \in (DOMAIN threads \ {t}) \cup (IF th = Idle THEN {} ELSE {t}) |->
        IF o = t THEN th ELSE threads[o]]

\* The step thread t is at, and t once it has made it.
StepOf(t) == Steps(Thread(t).op)[Thread(t).pc]
AtStep(t, k) == t \in DOMAIN threads /\ StepOf(t).k = k
Advanced(th) ==
    IF th.pc = Len(Steps(th.op)) THEN Idle ELSE [th EXCEPT !.pc = @ + 1]

UntouchedByThreads ==
    UNCHANGED <<migrations, ownedRunningMigrations, ownedObjects, isOpen, EnableOnlineDDL,
                keyspace, reviewedRunningMigrationsFlag, vrepl, throttledApps,
                throttlerOpen, handlers, tickPc, postponedAtTick, cancellable,
                submitting, fixCompletedTimestampDone, tables, cutOver, completions,
                writtenUnder, tickReentranceFlag, coolDown, lastCall>>

\* A caller begins a call of the API; the ticker begins a tick.
BeginCall(t, op) ==
    /\ t \notin DOMAIN threads
    /\ threads' = Becomes(t, [op |-> op, pc |-> 1, holds |-> {}])
    /\ UntouchedByThreads

\* sync.Mutex.Lock: t goes on when no thread holds the mutex, t included.
MutexLock(t) ==
    /\ AtStep(t, "Lock")
    /\ \A o \in DOMAIN threads : StepOf(t).x \notin threads[o].holds
    /\ threads' = Becomes(t, Advanced([threads[t] EXCEPT !.holds = @ \cup {StepOf(t).x}]))
    /\ UntouchedByThreads

MutexUnlock(t) ==
    /\ AtStep(t, "Unlock")
    /\ threads' = Becomes(t, Advanced([threads[t] EXCEPT !.holds = @ \ {StepOf(t).x}]))
    /\ UntouchedByThreads

\* A call that takes no lock returns.
CallReturns(t) ==
    /\ AtStep(t, "call")
    /\ threads' = Becomes(t, Advanced(threads[t]))
    /\ UntouchedByThreads

\* go f(): f begins in a goroutine, and t goes on.  When no more goroutines
\* are observed than there are, f is not followed.
GoStatement(t) ==
    /\ AtStep(t, "go")
    /\ LET free == GoThreads \ DOMAIN threads
           on == Becomes(t, Advanced(threads[t]))
       IN \/ free = {} /\ threads' = on
          \/ \E g \in free :
                threads' = [o \in DOMAIN on \cup {g} |->
                               IF o = g THEN [op |-> StepOf(t).x, pc |-> 1, holds |-> {}]
                               ELSE on[o]]
    /\ UntouchedByThreads

NextLocks ==
    \/ \E t \in APIThreads, op \in APICalls : BeginCall(t, op)
    \/ BeginCall("ticker", "onMigrationCheckTick")
    \/ \E t \in Threads : MutexLock(t)
    \/ \E t \in Threads : MutexUnlock(t)
    \/ \E t \in Threads : CallReturns(t)
    \/ \E t \in Threads : GoStatement(t)


\* A thread that holds a mutex goes on (its calls return), and a thread that
\* waits for a mutex that is free again and again gets it: sync.Mutex hands a
\* mutex to a waiter that has been starving.
SpecLocks ==
    /\ InitServing
    /\ [][NextLocks]_vars
    /\ \A t \in Threads :
          /\ WF_vars(MutexUnlock(t) \/ CallReturns(t) \/ GoStatement(t))
          /\ SF_vars(MutexLock(t))

\* C39: no thread locks a mutex it holds, no thread locks submitMutex
\* while it holds migrationMutex, and every thread that waits for a mutex gets
\* it in the end.
C39_LocksAreAcquired ==
    /\ [](\A t \in Threads :
             AtStep(t, "Lock") =>
                 /\ StepOf(t).x \notin Thread(t).holds
                 /\ StepOf(t).x = "submitMutex" => Thread(t).holds = {})
    /\ \A t \in Threads : AtStep(t, "Lock") ~> ~AtStep(t, "Lock")

\* A resubmission holds submitMutex and waits for migrationMutex in its
\* RetryMigration, the ticker holds migrationMutex in the running reviewer,
\* and the CancelMigration that the reviewer started waits for it, too.
C39_Witness ==
    /\ \E t \in APIThreads :
          /\ Thread(t).op = "SubmitMigration stored singleton"
          /\ Thread(t).holds = {"submitMutex"}
          /\ AtStep(t, "Lock") /\ Thread(t).pc > 3
    /\ "migrationMutex" \in Thread("ticker").holds
    /\ \E g \in GoThreads : Thread(g).op = "CancelMigration" /\ AtStep(g, "Lock")

(* ------------------------------------------ C40: the goroutine of RENAME *)
\* The goroutine runs the RENAME and then sends its result on
\* renameCompleteChan, a channel without buffer that only
\* cutOverVReplMigration receives from: a result that was not received when
\* the function has returned is never received, and the goroutine stays at its
\* send.

\* C40 as stated: when cutOverVReplMigration has returned, the result of every
\* RENAME goroutine it started was received, so that the goroutine ends, however
\* the cut-over went.
C40_RenameGoroutineEnds ==
    cutOver.pc = "done" => cutOver.renameCompleteChan # "sending"

====
